---- MODULE Spec2Model ----
(***************************************************************************)
(* Model of PortfolioGenerator (src/generate_content.py): the in-memory    *)
(* content model (existing_tags, existing_writeups, existing_projects),    *)
(* the documents on disk, and the create / remove / refresh operations     *)
(* that keep them in step.                                                 *)
(*                                                                         *)
(* Text is modelled as a sequence of atoms (strings).  A document is a     *)
(* sequence of tokens [k, v]: k names the piece of markup, v is the text   *)
(* substituted into it.  Marker strings of the source are fixed token      *)
(* sequences, and str.find / re.sub work on the token sequence.            *)
(***************************************************************************)
EXTENDS Integers, Sequences, FiniteSets, TLC

VARIABLES existing_tags, existing_writeups, existing_projects,
          tagdocs, wdocs, pages, last, ops

vars == <<existing_tags, existing_writeups, existing_projects,
          tagdocs, wdocs, pages, last, ops>>

(***************************************************************************)
(* Bounds and input domains                                                *)
(***************************************************************************)
\* commands run on one generator instance
MaxOps == 4
MaxProjects == 1
\* commands explored from a site that was edited by hand
MaxOpsDamaged == 2
\* writeups of a site that already holds many, and commands explored from it
MaxWriteups == 5
MaxOpsMany == 2
\* splices applied to one document, and the length of the text around its markers
MaxSplices == 2
MaxPiece == 1
\* titles given on the command line: two that are equal ignoring case, and a third
T1 == <<"A", " ", "b">>
T2 == <<"a", " ", "b">>
T3 == <<"C", ".">>
Titles == { T1, T2, T3 }
TagNames == { <<"x">>, <<"y">> }
\* --tags takes one or more names; a name may be repeated
TagLists == { <<<<"x">>>>, <<<<"x">>, <<"y">>>>, <<<<"x">>, <<"x">>>> }
Descriptions == { <<"d">> }
\* --writeups / --from-writeups
TitleLists == { <<>>, <<T2>>, <<T3>>, <<T2, T3>> }
Empty == <<>>
\* datetime.now().strftime("%B %d, %Y")
Today == <<"today">>

\* the optional writeup attributes, as given on the command line
Extras == { [machine_photo |-> <<"p">>, created_date |-> Empty, updated_date |-> Empty,
             difficulty |-> <<"e">>, os_type |-> Empty, ip_address |-> Empty] }
ProjectInputs == { [title |-> <<"P">>, description |-> <<"q">>, url |-> <<"u">>, date |-> Empty] }

(***************************************************************************)
(* Text helpers                                                            *)
(***************************************************************************)
Tok(k, v) == [k |-> k, v |-> v]
Mk(k) == [k |-> k, v |-> <<>>]

Range(s) == { s[i] : i \in DOMAIN s }

\* str.lower on one character
LowerChar(c) ==
  CASE c = "A" -> "a"
    [] c = "B" -> "b"
    [] c = "C" -> "c"
    [] c = "P" -> "p"
    [] OTHER -> c

\* str.lower
Lower(s) == [i \in DOMAIN s |-> LowerChar(s[i])]

RECURSIVE ReplaceChar(_, _, _)
\* str.replace(old, new) for a one-character old; new is a (possibly empty) text
ReplaceChar(s, old, new) ==
  IF s = <<>> THEN <<>>
  ELSE (IF Head(s) = old THEN new ELSE <<Head(s)>>) \o ReplaceChar(Tail(s), old, new)

\* a file name that keeps the case of the title
WriteupFilenameKeepsCase(title) ==
  <<"writeup-">>
    \o ReplaceChar(ReplaceChar(ReplaceChar(title, " ", <<"-">>), ":", <<>>), ".", <<>>)
    \o <<".html">>

\* f"writeup-{title.lower().replace(' ', '-').replace(':', '').replace('.', '')}.html"
WriteupFilename(title) ==
  <<"writeup-">>
    \o ReplaceChar(ReplaceChar(ReplaceChar(Lower(title), " ", <<"-">>), ":", <<>>), ".", <<>>)
    \o <<".html">>

\* f"tag-{tag_name}.html"
TagFilename(tag) == <<"tag-">> \o tag \o <<".html">>

\* str.find(marker, from): least position >= from where marker occurs, 0 if none
\* (positions are 1-based; Python's -1 is 0 here)
Find(content, marker, from) ==
  LET hits == { i \in from..(Len(content) - Len(marker) + 1) :
                  SubSeq(content, i, i + Len(marker) - 1) = marker }
  IN IF hits = {} THEN 0 ELSE CHOOSE i \in hits : \A j \in hits : i <= j

\* whether text needle occurs inside text s
Contains(s, needle) == Find(s, needle, 1) # 0

RECURSIVE Join(_, _)
\* sep.join(parts), each part a token sequence
Join(parts, sep) ==
  IF parts = <<>> THEN <<>>
  ELSE IF Len(parts) = 1 THEN parts[1]
  ELSE parts[1] \o sep \o Join(Tail(parts), sep)

\* character order used by sorted() on the tag names of the model
CharOrd(c) ==
  CASE c = "x" -> 1
    [] c = "y" -> 2
    [] OTHER -> 0

RECURSIVE LexLess(_, _)
LexLess(a, b) ==
  IF a = <<>> THEN b # <<>>
  ELSE IF b = <<>> THEN FALSE
  ELSE IF CharOrd(Head(a)) # CharOrd(Head(b)) THEN CharOrd(Head(a)) < CharOrd(Head(b))
  ELSE LexLess(Tail(a), Tail(b))

RECURSIVE Sorted(_)
\* sorted(set of texts)
Sorted(S) ==
  IF S = {} THEN <<>>
  ELSE LET m == CHOOSE a \in S : \A b \in S \ {a} : LexLess(a, b)
       IN <<m>> \o Sorted(S \ {m})

(***************************************************************************)
(* Markup tokens and the marker strings of the splice sites                *)
(***************************************************************************)
Ws(n) == Tok("ws", <<n>>)
DivOpen == Mk("div")
DivClose == Mk("/div")
MainClose == Mk("/main")

\* '<div class="tag-container mb-4">' and '</div>'
TagStartMarker == << Mk("div.tag-container.mb-4") >>
TagEndMarker == << DivClose >>

\* '<div class="row" id="writeupsContainer">', '<div class="row" id="tagsContainer">'
WriteupsStartMarker == << Mk("div.row#writeupsContainer") >>
TagsStartMarker == << Mk("div.row#tagsContainer") >>
\* '<div class="mb-4">\n    <h2>...Projects</h2>\n</div>\n\n<div class="row">'
ProjectsStartMarker == << Mk("div.mb-4"), Mk("h2.Projects"), DivClose, Mk("div.row") >>
\* '<div class="mb-4">\n    <h2>...Recent Posts</h2>\n</div>\n\n<div class="row">'
HomeStartMarker == << Mk("div.mb-4"), Mk("h2.RecentPosts"), DivClose, Mk("div.row") >>
\* '</div>\n\n                </main>'
ListEndMarker == << DivClose, Ws("nlnl16"), MainClose >>

\* '<div class="col-lg-6 col-xl-4 mb-4 writeup-card" data-category="">'
CardOpen == Mk("div.col-lg-6.writeup-card")
\* '<div class="col-12 mb-4 writeup-card" data-category="">'
RecentCardOpen == Mk("div.col-12.writeup-card")

(***************************************************************************)
(* Fragment renderers                                                      *)
(***************************************************************************)
RECURSIVE Inline(_, _)
\* element k with text v substituted into it: the text is not escaped, so a '</div>'
\* inside it is a closing div of the document
Inline(k, v) ==
  LET i == Find(v, <<"</div>">>, 1)
  IN IF i = 0 THEN << Tok(k, v) >>
     ELSE << Tok(k, SubSeq(v, 1, i - 1)), DivClose >>
            \o Inline("text", SubSeq(v, i + 1, Len(v)))

\* '\n'.join(f'<a href="{prefix}tag-{tag}.html" class="tag-badge me-1">{tag}</a>' ...)
TagLinks(prefix, tags) ==
  Join([i \in DOMAIN tags |-> Inline("a.tag-badge", <<prefix>> \o TagFilename(tags[i]))],
       << Ws("nl") >>)

\* one writeup card: open is the card's opening element, prefix the path to the site
\* root as seen from the page that holds the card
WriteupCard(open, hrefPrefix, tagPrefix, writeup) ==
  << open, DivOpen, DivOpen, DivOpen,
     Tok("a", <<hrefPrefix>> \o writeup.filename), Tok("text", writeup.title), Mk("/a"),
     Tok("p.excerpt", writeup.title), Tok("small.date", writeup.created_date),
     Mk("div.tag-container") >>
    \o TagLinks(tagPrefix, writeup.tags)
    \o << DivClose, DivClose,
          Mk("div.d-none"), Tok("img", writeup.machine_photo), DivClose,
          DivClose, DivClose, DivClose >>

_generate_writeup_cards_for_tag(writeups) ==
  Join([i \in DOMAIN writeups |-> WriteupCard(CardOpen, "../writeups/", "", writeups[i])],
       << Ws("nl") >>)

\* the writeups grid rendered newest first, as the home page's listing is
_generate_writeups_grid_newest_first(writeups) ==
  Join([i \in DOMAIN writeups |->
          WriteupCard(CardOpen, "writeups/", "tags/", writeups[Len(writeups) + 1 - i])],
       << Ws("nl") >>)

_generate_writeups_grid(writeups) ==
  Join([i \in DOMAIN writeups |-> WriteupCard(CardOpen, "writeups/", "tags/", writeups[i])],
       << Ws("nl") >>)

Reverse(s) == [i \in DOMAIN s |-> s[Len(s) + 1 - i]]

\* recent posts cut to the latest four writeups
_generate_recent_posts_latest_four(writeups) ==
  LET all == Reverse(writeups)
      recent_writeups == SubSeq(all, 1, IF Len(all) < 4 THEN Len(all) ELSE 4)
  IN Join([i \in DOMAIN recent_writeups |->
             WriteupCard(RecentCardOpen, "writeups/", "tags/", recent_writeups[i])],
          << Ws("nl") >>)

_generate_recent_posts(writeups) ==
  LET recent_writeups == Reverse(writeups)
  IN Join([i \in DOMAIN recent_writeups |->
             WriteupCard(RecentCardOpen, "writeups/", "tags/", recent_writeups[i])],
          << Ws("nl") >>)

_generate_tags_grid(tags) ==
  LET sorted == Sorted(tags)
  IN Join([i \in DOMAIN sorted |->
             << Mk("div.tag-card"), Tok("a.tag-badge", <<"tags/">> \o TagFilename(sorted[i])),
                DivClose >>],
          << Ws("nl") >>)

_generate_projects_grid(projects) ==
  Join([i \in DOMAIN projects |->
          LET description == IF "description" \in DOMAIN projects[i]
                             THEN projects[i].description
                             ELSE projects[i].title \o <<" - A cybersecurity project.">>
          IN << Mk("div.project-card"), DivOpen, DivOpen,
                Tok("a", projects[i].url), Tok("text", projects[i].title), Mk("/a"),
                Tok("p.excerpt", description), Tok("small.date", projects[i].date),
                DivClose, DivClose, DivClose >>],
       << Ws("nl") >>)

_generate_tag_html(tag_name, description) ==
  << Tok("title", tag_name), Mk("nav"), Mk("sidebar"), Mk("main"),
     Tok("breadcrumb", tag_name), Mk("div.mb-4"), Tok("h2", tag_name) >>
    \o (IF description # <<>> THEN << Tok("p", description) >> ELSE <<>>)
    \o << DivClose >>
    \o WriteupsStartMarker
    \o << Ws("nl24"), Mk("comment"), Ws("nl20") >>
    \o ListEndMarker
    \o << DivClose, DivClose, DivClose, Mk("footer"), Mk("scripts") >>

_generate_writeup_html(title, tags, x) ==
  LET machine_info_html ==
        IF x.difficulty # <<>> \/ x.os_type # <<>> \/ x.ip_address # <<>>
        THEN << Mk("div.machine-info"), Mk("h6"), Mk("div.d-flex") >>
               \o (IF x.difficulty # <<>> THEN << Tok("Difficulty:", x.difficulty) >> ELSE <<>>)
               \o (IF x.os_type # <<>> THEN << Tok("OS:", x.os_type) >> ELSE <<>>)
               \o (IF x.ip_address # <<>> THEN << Tok("IP:", x.ip_address) >> ELSE <<>>)
               \o << DivClose, DivClose >>
        ELSE <<>>
  IN << Tok("title", title), Mk("nav"), Mk("sidebar"), Mk("main"),
        Tok("breadcrumb", title), DivOpen, DivOpen, DivOpen, DivOpen,
        Tok("h1", title), Mk("div.mb-3"),
        Tok("Created:", x.created_date), Tok("Updated:", x.updated_date), DivClose >>
       \o TagStartMarker
       \o << Ws("nl40") >> \o TagLinks("../tags/", tags) \o << Ws("nl36") >>
       \o TagEndMarker
       \o machine_info_html
       \o << DivClose >>
       \o (IF x.machine_photo # <<>>
           THEN << Mk("div.d-none"), Tok("img.MachinePhoto", x.machine_photo), DivClose >>
           ELSE <<>>)
       \o << DivClose, Mk("markdown-content"), DivClose, DivClose, DivClose,
             Ws("nlnl16"), MainClose,
             DivClose, DivClose, DivClose, Mk("footer"), Mk("scripts") >>

\* a singleton listing page as the site ships it: its marker pair around an empty region
ListingPage(start_marker) ==
  << Mk("head"), Mk("nav"), Mk("sidebar"), Mk("main") >>
    \o start_marker \o << Ws("nl") >> \o ListEndMarker
    \o << DivClose, DivClose, DivClose, Mk("footer"), Mk("scripts") >>

(***************************************************************************)
(* Files: a directory is a function from the names present to contents     *)
(***************************************************************************)
Exists(dir, name) == name \in DOMAIN dir
WriteFile(dir, name, content) ==
  [n \in DOMAIN dir \cup {name} |-> IF n = name THEN content ELSE dir[n]]
Unlink(dir, name) == [n \in DOMAIN dir \ {name} |-> dir[n]]

(***************************************************************************)
(* Region splice: the find / find / slice-and-concatenate of every site    *)
(***************************************************************************)
\* a splice that looks for the last start marker of the document
SpliceAtLastStart(content, start_marker, end_marker, end_from, pre, inner, post) ==
  LET hits == { i \in 1..Len(content) :
                  SubSeq(content, i, i + Len(start_marker) - 1) = start_marker }
      start_pos == IF hits = {} THEN 0 ELSE CHOOSE i \in hits : \A j \in hits : j <= i
  IN IF start_pos = 0 THEN [found |-> FALSE, content |-> content]
     ELSE LET end_pos == Find(content, end_marker, start_pos + end_from)
          IN IF end_pos = 0 THEN [found |-> FALSE, content |-> content]
             ELSE [found |-> TRUE,
                   content |-> SubSeq(content, 1, start_pos + Len(start_marker) - 1)
                                 \o pre \o inner \o post
                                 \o SubSeq(content, end_pos, Len(content))]

\* a splice that puts the new text after the start marker and keeps the old region
SpliceKeepsOldRegion(content, start_marker, end_marker, end_from, pre, inner, post) ==
  LET start_pos == Find(content, start_marker, 1)
  IN IF start_pos = 0 THEN [found |-> FALSE, content |-> content]
     ELSE LET end_pos == Find(content, end_marker, start_pos + end_from)
          IN IF end_pos = 0 THEN [found |-> FALSE, content |-> content]
             ELSE [found |-> TRUE,
                   content |-> SubSeq(content, 1, start_pos + Len(start_marker) - 1)
                                 \o pre \o inner \o post
                                 \o SubSeq(content, start_pos + Len(start_marker),
                                           Len(content))]

\* a splice that resumes the old text after the end marker instead of at it
SpliceDropsEndMarker(content, start_marker, end_marker, end_from, pre, inner, post) ==
  LET start_pos == Find(content, start_marker, 1)
  IN IF start_pos = 0 THEN [found |-> FALSE, content |-> content]
     ELSE LET end_pos == Find(content, end_marker, start_pos + end_from)
          IN IF end_pos = 0 THEN [found |-> FALSE, content |-> content]
             ELSE [found |-> TRUE,
                   content |-> SubSeq(content, 1, start_pos + Len(start_marker) - 1)
                                 \o pre \o inner \o post
                                 \o SubSeq(content, end_pos + Len(end_marker),
                                           Len(content))]

\* a splice that, finding no end marker, replaces the text up to the end of the document
SpliceToEndOfDocument(content, start_marker, end_marker, end_from, pre, inner, post) ==
  LET start_pos == Find(content, start_marker, 1)
  IN IF start_pos = 0 THEN [found |-> FALSE, content |-> content]
     ELSE LET end_pos == Find(content, end_marker, start_pos + end_from)
          IN [found |-> TRUE,
              content |-> SubSeq(content, 1, start_pos + Len(start_marker) - 1)
                            \o pre \o inner \o post
                            \o (IF end_pos = 0 THEN <<>>
                                ELSE SubSeq(content, end_pos, Len(content)))]

\* end_from is where the search for the end marker starts, relative to start_pos
Splice(content, start_marker, end_marker, end_from, pre, inner, post) ==
  LET start_pos == Find(content, start_marker, 1)
  IN IF start_pos = 0 THEN [found |-> FALSE, content |-> content]
     ELSE LET end_pos == Find(content, end_marker, start_pos + end_from)
          IN IF end_pos = 0 THEN [found |-> FALSE, content |-> content]
             ELSE [found |-> TRUE,
                   content |-> SubSeq(content, 1, start_pos + Len(start_marker) - 1)
                                 \o pre \o inner \o post
                                 \o SubSeq(content, end_pos, Len(content))]

\* the new text of a writeup document whose tag container is rewritten for tags
SpliceWriteupTags(content, tags) ==
  Splice(content, TagStartMarker, TagEndMarker, Len(TagStartMarker),
         << Ws("nl24") >>, TagLinks("../tags/", tags), << Ws("nl20") >>)

\* a listing splice that inserts inner after the start marker and keeps the old region
SpliceListingInserts(content, start_marker, inner) ==
  LET start_pos == Find(content, start_marker, 1)
  IN IF start_pos = 0 \/ Find(content, ListEndMarker, start_pos) = 0
     THEN [found |-> FALSE, content |-> content]
     ELSE [found |-> TRUE,
           content |-> SubSeq(content, 1, start_pos + Len(start_marker) - 1)
                         \o << Ws("nl") >> \o inner \o << Ws("nl") >>
                         \o SubSeq(content, start_pos + Len(start_marker), Len(content))]

\* the new text of a listing document whose region is replaced by inner
SpliceListing(content, start_marker, inner) ==
  Splice(content, start_marker, ListEndMarker, 0, << Ws("nl") >>, inner, << Ws("nl") >>)

(***************************************************************************)
(* re.sub of the card pattern                                              *)
(*   <card open>.*?<filename>.*?</div>\s*</div>\s*</div>                   *)
(* with DOTALL, on a token sequence                                        *)
(***************************************************************************)
\* least index > m of a token that is not whitespace, 0 if none
NextNonWs(content, m) ==
  LET c == { i \in (m + 1)..Len(content) : content[i].k # "ws" }
  IN IF c = {} THEN 0 ELSE CHOOSE i \in c : \A j \in c : i <= j

\* index of the third of three closing divs separated by whitespace only, the first
\* of them being the least one at index >= from; 0 if none
TripleCloseEnd(content, from) ==
  LET ends == { i \in from..Len(content) :
                  /\ content[i] = DivClose
                  /\ NextNonWs(content, i) # 0
                  /\ content[NextNonWs(content, i)] = DivClose
                  /\ NextNonWs(content, NextNonWs(content, i)) # 0
                  /\ content[NextNonWs(content, NextNonWs(content, i))] = DivClose }
  IN IF ends = {} THEN 0
     ELSE LET i == CHOOSE i \in ends : \A j \in ends : i <= j
          IN NextNonWs(content, NextNonWs(content, i))

\* least index >= from of a token whose text contains filename, 0 if none
FirstMention(content, filename, from) ==
  LET c == { i \in from..Len(content) : Contains(content[i].v, filename) }
  IN IF c = {} THEN 0 ELSE CHOOSE i \in c : \A j \in c : i <= j

RECURSIVE RemoveCards(_, _)
RemoveCards(content, filename) ==
  LET i == Find(content, << CardOpen >>, 1)
      j == IF i = 0 THEN 0 ELSE FirstMention(content, filename, i + 1)
      e == IF j = 0 THEN 0 ELSE TripleCloseEnd(content, j + 1)
  IN IF e = 0 THEN content
     ELSE SubSeq(content, 1, i - 1)
            \o RemoveCards(SubSeq(content, e + 1, Len(content)), filename)

(***************************************************************************)
(* Operations of PortfolioGenerator, as functions of the generator state   *)
(*   G = [tags, writeups, projects, tagdocs, wdocs, pages]                 *)
(***************************************************************************)
\* a lookup by title that takes the last writeup with that title
FindLastByTitle(writeups, title) ==
  LET c == { i \in DOMAIN writeups : Lower(writeups[i].title) = Lower(title) }
  IN IF c = {} THEN 0 ELSE CHOOSE i \in c : \A j \in c : j <= i

\* index of the first writeup whose title equals title ignoring case, 0 if none
FindByTitle(writeups, title) ==
  LET c == { i \in DOMAIN writeups : Lower(writeups[i].title) = Lower(title) }
  IN IF c = {} THEN 0 ELSE CHOOSE i \in c : \A j \in c : i <= j

\* index of the first writeup with this filename, 0 if none
FindByFilename(writeups, filename) ==
  LET c == { i \in DOMAIN writeups : writeups[i].filename = filename }
  IN IF c = {} THEN 0 ELSE CHOOSE i \in c : \A j \in c : i <= j

\* the tag names used by some writeup
UsedTags(writeups) == UNION { Range(writeups[i].tags) : i \in DOMAIN writeups }

\* list.remove(x): drops the first occurrence
RemoveFirst(s, x) ==
  LET c == { i \in DOMAIN s : s[i] = x }
      i == CHOOSE i \in c : \A j \in c : i <= j
  IN IF c = {} THEN s ELSE SubSeq(s, 1, i - 1) \o SubSeq(s, i + 1, Len(s))

\* list.remove(element at index i)
RemoveAt(s, i) == SubSeq(s, 1, i - 1) \o SubSeq(s, i + 1, Len(s))

\* _update_writeup_tags that leaves the document as it is
_update_writeup_tags_writes_nothing(G, filename, tags) == G

_update_writeup_tags(G, filename, tags) ==
  LET r == SpliceWriteupTags(G.wdocs[filename], tags)
  IN IF r.found THEN [G EXCEPT !.wdocs = WriteFile(@, filename, r.content)] ELSE G

RECURSIVE _add_tag_to_writeups_stops_at_unresolved(_, _, _)
\* _add_tag_to_writeups that gives up at the first title that resolves to no writeup
_add_tag_to_writeups_stops_at_unresolved(G, tag_name, writeup_titles) ==
  IF writeup_titles = <<>> THEN G
  ELSE LET i == FindByTitle(G.writeups, Head(writeup_titles))
           rest == Tail(writeup_titles)
       IN IF i = 0 THEN G
          ELSE IF tag_name \in Range(G.writeups[i].tags)
          THEN _add_tag_to_writeups_stops_at_unresolved(G, tag_name, rest)
          ELSE LET tags == Append(G.writeups[i].tags, tag_name)
                   g1 == [G EXCEPT !.writeups[i].tags = tags]
                   g2 == IF Exists(g1.wdocs, g1.writeups[i].filename)
                         THEN _update_writeup_tags(g1, g1.writeups[i].filename, tags)
                         ELSE g1
               IN _add_tag_to_writeups_stops_at_unresolved(g2, tag_name, rest)

RECURSIVE _add_tag_to_writeups(_, _, _)
_add_tag_to_writeups(G, tag_name, writeup_titles) ==
  IF writeup_titles = <<>> THEN G
  ELSE LET i == FindByTitle(G.writeups, Head(writeup_titles))
           rest == Tail(writeup_titles)
       IN IF i = 0 THEN _add_tag_to_writeups(G, tag_name, rest)
          ELSE IF tag_name \in Range(G.writeups[i].tags)
          THEN _add_tag_to_writeups(G, tag_name, rest)
          ELSE LET tags == Append(G.writeups[i].tags, tag_name)
                   g1 == [G EXCEPT !.writeups[i].tags = tags]
                   g2 == IF Exists(g1.wdocs, g1.writeups[i].filename)
                         THEN _update_writeup_tags(g1, g1.writeups[i].filename, tags)
                         ELSE g1
               IN _add_tag_to_writeups(g2, tag_name, rest)

\* create_tag that attaches the tag to the writeups even when the tag file exists
create_tag_attaches_anyway(G, tag_name, description, writeup_titles) ==
  IF Exists(G.tagdocs, tag_name)
  THEN [g |-> _add_tag_to_writeups(G, tag_name, writeup_titles), ok |-> FALSE]
  ELSE LET g1 == [G EXCEPT !.tagdocs = WriteFile(@, tag_name,
                                                 _generate_tag_html(tag_name, description)),
                           !.tags = @ \cup {tag_name}]
       IN [g |-> IF writeup_titles # <<>>
                 THEN _add_tag_to_writeups(g1, tag_name, writeup_titles)
                 ELSE g1,
           ok |-> TRUE]

create_tag(G, tag_name, description, writeup_titles) ==
  IF Exists(G.tagdocs, tag_name) THEN [g |-> G, ok |-> FALSE]
  ELSE LET g1 == [G EXCEPT !.tagdocs = WriteFile(@, tag_name,
                                                 _generate_tag_html(tag_name, description)),
                           !.tags = @ \cup {tag_name}]
       IN [g |-> IF writeup_titles # <<>>
                 THEN _add_tag_to_writeups(g1, tag_name, writeup_titles)
                 ELSE g1,
           ok |-> TRUE]

RECURSIVE ValidateTagsAnew(_, _)
\* a validation loop that writes the document of every tag of the list anew
ValidateTagsAnew(G, tags) ==
  IF tags = <<>> THEN G
  ELSE ValidateTagsAnew([G EXCEPT !.tagdocs = WriteFile(@, Head(tags),
                                                        _generate_tag_html(Head(tags), <<>>)),
                                  !.tags = @ \cup { Head(tags) }],
                        Tail(tags))

RECURSIVE ValidateTags(_, _)
\* the "Validate tags" loop of create_writeup
ValidateTags(G, tags) ==
  IF tags = <<>> THEN G
  ELSE ValidateTags(IF Head(tags) \notin G.tags
                    THEN create_tag(G, Head(tags), <<>>, <<>>).g
                    ELSE G,
                    Tail(tags))

\* create_writeup that validates (and creates) the tags before it looks for the file
create_writeup_validates_first(G, title, tags, x) ==
  IF Exists(G.wdocs, WriteupFilename(title))
  THEN [g |-> ValidateTags(G, tags), ok |-> FALSE]
  ELSE [g |-> [ValidateTags(G, tags) EXCEPT
                 !.wdocs = WriteFile(@, WriteupFilename(title),
                                     _generate_writeup_html(title, tags, x)),
                 !.writeups = Append(@, [title |-> title,
                                         filename |-> WriteupFilename(title),
                                         created_date |-> x.created_date,
                                         updated_date |-> x.updated_date,
                                         machine_photo |-> x.machine_photo,
                                         tags |-> tags,
                                         difficulty |-> x.difficulty,
                                         os_type |-> x.os_type,
                                         ip_address |-> x.ip_address])],
        ok |-> TRUE]

\* create_writeup without the test for an existing file
create_writeup_over_existing(G, title, tags, x) ==
  [g |-> [ValidateTags(G, tags) EXCEPT
            !.wdocs = WriteFile(@, WriteupFilename(title),
                                _generate_writeup_html(title, tags, x)),
            !.writeups = Append(@, [title |-> title,
                                    filename |-> WriteupFilename(title),
                                    created_date |-> x.created_date,
                                    updated_date |-> x.updated_date,
                                    machine_photo |-> x.machine_photo,
                                    tags |-> tags,
                                    difficulty |-> x.difficulty,
                                    os_type |-> x.os_type,
                                    ip_address |-> x.ip_address])],
   ok |-> TRUE]

create_writeup(G, title, tags, x) ==
  LET filename == WriteupFilename(title)
      created_date == IF x.created_date = <<>> THEN Today ELSE x.created_date
      updated_date == IF x.updated_date = <<>> THEN created_date ELSE x.updated_date
      dates == [x EXCEPT !.created_date = created_date, !.updated_date = updated_date]
  IN IF Exists(G.wdocs, filename) THEN [g |-> G, ok |-> FALSE]
     ELSE LET g1 == ValidateTags(G, tags)
          IN [g |-> [g1 EXCEPT
                       !.wdocs = WriteFile(@, filename,
                                           _generate_writeup_html(title, tags, dates)),
                       !.writeups = Append(@, [title |-> title,
                                               filename |-> filename,
                                               created_date |-> created_date,
                                               updated_date |-> updated_date,
                                               machine_photo |-> x.machine_photo,
                                               tags |-> tags,
                                               difficulty |-> x.difficulty,
                                               os_type |-> x.os_type,
                                               ip_address |-> x.ip_address])],
              ok |-> TRUE]

RECURSIVE RemoveCardsFromFiles(_, _, _)
RemoveCardsFromFiles(files, names, filename) ==
  IF names = {} THEN files
  ELSE LET n == CHOOSE n \in names : TRUE
           new_content == RemoveCards(files[n], filename)
       IN RemoveCardsFromFiles(IF new_content # files[n]
                               THEN WriteFile(files, n, new_content)
                               ELSE files,
                               names \ {n}, filename)

_remove_broken_links_from_tags(G, filename) ==
  [G EXCEPT !.tagdocs = RemoveCardsFromFiles(@, DOMAIN @, filename)]

\* _cleanup_unused_tags that deletes no file
_cleanup_unused_tags_keeps_files(G, tags_to_check) == G

\* a cleanup that deletes the document of every tag no writeup carries
_cleanup_unused_tags_of_any_tag(G, tags_to_check) ==
  [G EXCEPT !.tagdocs = [n \in DOMAIN @ \cap UsedTags(G.writeups) |-> @[n]]]

_cleanup_unused_tags(G, tags_to_check) ==
  LET all_used_tags == UsedTags(G.writeups)
      unused_tags == { t \in Range(tags_to_check) : t \notin all_used_tags }
  IN [G EXCEPT !.tagdocs = [n \in DOMAIN @ \ unused_tags |-> @[n]]]

\* one singleton listing page: skipped when the file or its markers are missing
UpdatePage(G, page, start_marker, inner) ==
  IF ~Exists(G.pages, page) THEN G
  ELSE LET r == SpliceListing(G.pages[page], start_marker, inner)
       IN IF r.found THEN [G EXCEPT !.pages = WriteFile(@, page, r.content)] ELSE G

_update_writeups_page(G) ==
  UpdatePage(G, "writeups.html", WriteupsStartMarker, _generate_writeups_grid(G.writeups))

_update_tags_page(G) ==
  UpdatePage(G, "tags.html", TagsStartMarker, _generate_tags_grid(G.tags))

_update_projects_page(G) ==
  UpdatePage(G, "projects.html", ProjectsStartMarker, _generate_projects_grid(G.projects))

_update_home_page(G) ==
  UpdatePage(G, "index.html", HomeStartMarker, _generate_recent_posts(G.writeups))

\* the writeups that carry tag_name, in model order
RECURSIVE WriteupsWithTag(_, _)
WriteupsWithTag(writeups, tag_name) ==
  IF writeups = <<>> THEN <<>>
  ELSE (IF tag_name \in Range(Head(writeups).tags) THEN << Head(writeups) >> ELSE <<>>)
         \o WriteupsWithTag(Tail(writeups), tag_name)

\* an update that writes a new tag document when the tag has none
_update_single_tag_page_creates_missing(G, tag_name) ==
  LET doc == IF Exists(G.tagdocs, tag_name) THEN G.tagdocs[tag_name]
             ELSE _generate_tag_html(tag_name, <<>>)
      r == SpliceListing(doc, WriteupsStartMarker,
                         _generate_writeup_cards_for_tag(WriteupsWithTag(G.writeups, tag_name)))
  IN IF r.found THEN [G EXCEPT !.tagdocs = WriteFile(@, tag_name, r.content)] ELSE G

_update_single_tag_page(G, tag_name) ==
  IF ~Exists(G.tagdocs, tag_name) THEN G
  ELSE LET writeups_with_tag == WriteupsWithTag(G.writeups, tag_name)
           r == SpliceListing(G.tagdocs[tag_name], WriteupsStartMarker,
                              _generate_writeup_cards_for_tag(writeups_with_tag))
       IN IF r.found THEN [G EXCEPT !.tagdocs = WriteFile(@, tag_name, r.content)] ELSE G

RECURSIVE UpdateTagPages(_, _)
UpdateTagPages(G, tags) ==
  IF tags = {} THEN G
  ELSE LET t == CHOOSE t \in tags : TRUE
       IN UpdateTagPages(_update_single_tag_page(G, t), tags \ {t})

_update_all_tag_pages(G) == UpdateTagPages(G, UsedTags(G.writeups))

\* update_main_pages that gives up at the first singleton page it cannot update
update_main_pages_stops_at_failure(G) ==
  LET located(g, page, start_marker) ==
        Exists(g.pages, page) /\ SpliceListing(g.pages[page], start_marker, <<>>).found
      g1 == _update_writeups_page(G)
      g2 == _update_tags_page(g1)
      g3 == _update_projects_page(g2)
      g4 == _update_home_page(g3)
  IN IF ~located(G, "writeups.html", WriteupsStartMarker) THEN G
     ELSE IF ~located(g1, "tags.html", TagsStartMarker) THEN g1
     ELSE IF ~located(g2, "projects.html", ProjectsStartMarker) THEN g2
     ELSE IF ~located(g3, "index.html", HomeStartMarker) THEN g3
     ELSE _update_all_tag_pages(g4)

update_main_pages(G) ==
  _update_all_tag_pages(
    _update_home_page(
      _update_projects_page(
        _update_tags_page(
          _update_writeups_page(G)))))

\* remove_writeup that looks the writeup up by its stored title
remove_writeup_by_title(G, title) ==
  LET i == FindByTitle(G.writeups, title)
  IN IF i = 0 THEN [g |-> G, ok |-> FALSE, tags_to_check |-> <<>>]
     ELSE LET filename == G.writeups[i].filename
              tags_to_check == G.writeups[i].tags
              g1 == IF Exists(G.wdocs, filename)
                    THEN [G EXCEPT !.wdocs = Unlink(@, filename)]
                    ELSE G
              g2 == [g1 EXCEPT !.writeups = RemoveAt(@, i)]
              g3 == _remove_broken_links_from_tags(g2, filename)
              g4 == _cleanup_unused_tags(g3, tags_to_check)
          IN [g |-> update_main_pages(g4), ok |-> TRUE, tags_to_check |-> tags_to_check]

remove_writeup(G, title) ==
  LET filename == WriteupFilename(title)
      i == FindByFilename(G.writeups, filename)
  IN IF i = 0 THEN [g |-> G, ok |-> FALSE, tags_to_check |-> <<>>]
     ELSE LET tags_to_check == G.writeups[i].tags
              g1 == IF Exists(G.wdocs, filename)
                    THEN [G EXCEPT !.wdocs = Unlink(@, filename)]
                    ELSE G
              g2 == [g1 EXCEPT !.writeups = RemoveAt(@, i)]
              g3 == _remove_broken_links_from_tags(g2, filename)
              g4 == _cleanup_unused_tags(g3, tags_to_check)
          IN [g |-> update_main_pages(g4), ok |-> TRUE, tags_to_check |-> tags_to_check]

RECURSIVE _remove_tag_from_writeups(_, _, _)
_remove_tag_from_writeups(G, tag_name, writeup_titles) ==
  IF writeup_titles = <<>> THEN G
  ELSE LET i == FindByTitle(G.writeups, Head(writeup_titles))
           rest == Tail(writeup_titles)
       IN IF i = 0 THEN _remove_tag_from_writeups(G, tag_name, rest)
          ELSE IF tag_name \notin Range(G.writeups[i].tags)
          THEN _remove_tag_from_writeups(G, tag_name, rest)
          ELSE LET tags == RemoveFirst(G.writeups[i].tags, tag_name)
                   g1 == [G EXCEPT !.writeups[i].tags = tags]
                   g2 == IF Exists(g1.wdocs, g1.writeups[i].filename)
                         THEN _update_writeup_tags(g1, g1.writeups[i].filename, tags)
                         ELSE g1
               IN _remove_tag_from_writeups(g2, tag_name, rest)

\* [w['title'] for w in writeups]
TitlesOf(writeups) == [i \in DOMAIN writeups |-> writeups[i].title]

\* remove_tag with the tag file deleted whether or not a writeup still uses the tag
DeleteTagAlways(G, tag_name) ==
  [G EXCEPT !.tagdocs = Unlink(@, tag_name), !.tags = @ \ {tag_name}]

\* the "Check if tag is still used by any writeup" step of remove_tag
DeleteTagIfUnused(G, tag_name) ==
  LET remaining_writeups_with_tag == WriteupsWithTag(G.writeups, tag_name)
  IN IF remaining_writeups_with_tag = <<>>
     THEN [G EXCEPT !.tagdocs = Unlink(@, tag_name), !.tags = @ \ {tag_name}]
     ELSE G

\* from_writeups is [given, titles]: given is FALSE for None
remove_tag(G, tag_name, from_writeups) ==
  IF ~Exists(G.tagdocs, tag_name) THEN [g |-> G, ok |-> FALSE]
  ELSE LET g1 == IF from_writeups.given /\ from_writeups.titles # <<>>
                 THEN _remove_tag_from_writeups(G, tag_name, from_writeups.titles)
                 ELSE LET writeups_with_tag == WriteupsWithTag(G.writeups, tag_name)
                      IN IF writeups_with_tag # <<>>
                         THEN _remove_tag_from_writeups(G, tag_name,
                                                        TitlesOf(writeups_with_tag))
                         ELSE G
       IN [g |-> DeleteTagIfUnused(g1, tag_name), ok |-> TRUE]

\* create_project that puts the new project in front of the list
create_project_in_front(G, p) ==
  [G EXCEPT !.projects = << [p EXCEPT !.date = IF p.date = <<>> THEN Today ELSE p.date] >> \o @]

\* create_project followed by a refresh of the listings
create_project_refreshes(G, p) ==
  update_main_pages(
    [G EXCEPT !.projects = Append(@, [p EXCEPT !.date = IF p.date = <<>> THEN Today ELSE p.date])])

create_project(G, p) ==
  [G EXCEPT !.projects = Append(@, [p EXCEPT !.date = IF p.date = <<>> THEN Today ELSE p.date])]

(***************************************************************************)
(* Construction: the model is rebuilt from the documents on disk           *)
(***************************************************************************)
\* str.upper on one character
UpperChar(c) ==
  CASE c = "a" -> "A"
    [] c = "b" -> "B"
    [] c = "c" -> "C"
    [] c = "o" -> "O"
    [] c = "p" -> "P"
    [] OTHER -> c

\* str.title: a letter is upper-cased at the start of a word, lower-cased elsewhere
TitleCase(s) ==
  [i \in DOMAIN s |-> IF i = 1 \/ s[i - 1] = " " THEN UpperChar(s[i]) ELSE LowerChar(s[i])]

RECURSIVE Strip(_)
\* str.strip
Strip(s) ==
  IF s = <<>> THEN s
  ELSE IF Head(s) = " " THEN Strip(Tail(s))
  ELSE IF s[Len(s)] = " " THEN Strip(SubSeq(s, 1, Len(s) - 1))
  ELSE s

\* group 1 of re.search for the first element k with a non-empty text, <<>> if none
FirstText(content, k) ==
  LET c == { i \in DOMAIN content : content[i].k = k /\ content[i].v # <<>> }
  IN IF c = {} THEN <<>> ELSE content[CHOOSE i \in c : \A j \in c : i <= j].v

\* set(re.findall(r'tag-([^"]+)\.html', content))
TagMatches(content) ==
  { SubSeq(content[i].v, Find(content[i].v, <<"tag-">>, 1) + 1, Len(content[i].v) - 1) :
      i \in { j \in DOMAIN content :
                /\ Find(content[j].v, <<"tag-">>, 1) # 0
                /\ content[j].v[Len(content[j].v)] = ".html" } }

\* the lists that hold each element of S once: list(set(...)) fixes no order
Orderings(S) ==
  { q \in [1..Cardinality(S) -> S] : \A a \in S : \E i \in DOMAIN q : q[i] = a }

\* the metadata of one writeup document; tags is the order list(set(...)) came out in
_extract_writeup_metadata(filename, content, tags) ==
  LET stem == SelectSeq(filename, LAMBDA a : a # "writeup-" /\ a # ".html")
      h1 == FirstText(content, "h1")
  IN [title |-> IF h1 # <<>> THEN h1 ELSE TitleCase(ReplaceChar(stem, "-", <<" ">>)),
      filename |-> filename,
      created_date |-> Strip(FirstText(content, "Created:")),
      updated_date |-> Strip(FirstText(content, "Updated:")),
      machine_photo |-> FirstText(content, "img.MachinePhoto"),
      tags |-> tags,
      difficulty |-> Strip(FirstText(content, "Difficulty:")),
      os_type |-> Strip(FirstText(content, "OS:")),
      ip_address |-> Strip(FirstText(content, "IP:"))]

\* tag_file.stem.replace("tag-", "") of every tag file
_load_existing_tags(files) == DOMAIN files

\* the possible results of loading the writeup files, by_ctime being their names
\* sorted by creation time
_load_existing_writeups(files, by_ctime) ==
  { q \in [DOMAIN by_ctime -> UNION { { _extract_writeup_metadata(by_ctime[i], files[by_ctime[i]], tags) :
                                          tags \in Orderings(TagMatches(files[by_ctime[i]])) } :
                                      i \in DOMAIN by_ctime }] :
      \A i \in DOMAIN by_ctime : q[i].filename = by_ctime[i] }

\* (url, title) of every card heading of projects.html, in document order
_extract_projects_from_html(content) ==
  LET at == SelectSeq([i \in DOMAIN content |-> i],
                      LAMBDA i : /\ content[i].k = "a" /\ i < Len(content)
                                 /\ content[i + 1].k = "text")
  IN [n \in DOMAIN at |-> [title |-> Strip(content[at[n] + 1].v),
                            url |-> content[at[n]].v,
                            date |-> <<>>]]

_load_existing_projects(files) ==
  IF Exists(files, "projects.html")
  THEN _extract_projects_from_html(files["projects.html"])
  ELSE <<>>

(***************************************************************************)
(* The state machine: one action per command                               *)
(***************************************************************************)
Cur == [tags |-> existing_tags, writeups |-> existing_writeups,
        projects |-> existing_projects,
        tagdocs |-> tagdocs, wdocs |-> wdocs, pages |-> pages]

Set(G) ==
  /\ existing_tags' = G.tags
  /\ existing_writeups' = G.writeups
  /\ existing_projects' = G.projects
  /\ tagdocs' = G.tagdocs
  /\ wdocs' = G.wdocs
  /\ pages' = G.pages

\* what the last command was, with its arguments and result
Last(op, name, list, given, tags_to_check, ok) ==
  [op |-> op, name |-> name, list |-> list, given |-> given,
   tags_to_check |-> tags_to_check, ok |-> ok]

\* one more command has run
Step == ops < MaxOps /\ ops' = ops + 1

\* the four singleton listing pages of the site
ShippedPages ==
  [p \in {"writeups.html", "tags.html", "projects.html", "index.html"} |->
     CASE p = "writeups.html" -> ListingPage(WriteupsStartMarker)
       [] p = "tags.html" -> ListingPage(TagsStartMarker)
       [] p = "projects.html" -> ListingPage(ProjectsStartMarker)
       [] OTHER -> ListingPage(HomeStartMarker)]

Init ==
  /\ existing_tags = {}
  /\ existing_writeups = <<>>
  /\ existing_projects = <<>>
  /\ tagdocs = <<>>
  /\ wdocs = <<>>
  /\ pages = ShippedPages
  /\ last = Last("init", <<>>, <<>>, FALSE, <<>>, TRUE)
  /\ ops = 0

\* a writeup document of an earlier run whose file was renamed by hand: its heading
\* still reads T3, its name is not the one derived from T3
RenamedFile == <<"writeup-", "o", ".html">>
RenamedDoc ==
  _generate_writeup_html(T3, << <<"x">> >>,
                         [machine_photo |-> <<"p">>, created_date |-> <<"earlier">>,
                          updated_date |-> <<"earlier">>, difficulty |-> <<"e">>,
                          os_type |-> Empty, ip_address |-> Empty])

\* the generator constructed over a site that holds the renamed writeup and its tag
InitLoaded ==
  /\ tagdocs = (<<"x">> :> _generate_tag_html(<<"x">>, <<>>))
  /\ wdocs = (RenamedFile :> RenamedDoc)
  /\ pages = ShippedPages
  /\ existing_tags = _load_existing_tags(tagdocs)
  /\ existing_writeups \in _load_existing_writeups(wdocs, << RenamedFile >>)
  /\ existing_projects = _load_existing_projects(pages)
  /\ last = Last("init", <<>>, <<>>, FALSE, <<>>, TRUE)
  /\ ops = 0

CreateTag ==
  /\ Step
  /\ \E n \in TagNames, d \in Descriptions, ts \in TitleLists :
    LET r == create_tag(Cur, n, d, ts)
    IN Set(r.g) /\ last' = Last("create_tag", n, ts, TRUE, <<>>, r.ok)

CreateWriteup ==
  /\ Step
  /\ \E t \in Titles, tags \in TagLists, x \in Extras :
    LET r == create_writeup(Cur, t, tags, x)
    IN Set(r.g) /\ last' = Last("create_writeup", t, tags, TRUE, <<>>, r.ok)

RemoveWriteup ==
  /\ Step
  /\ \E t \in Titles :
    LET r == remove_writeup(Cur, t)
    IN Set(r.g) /\ last' = Last("remove_writeup", t, <<>>, FALSE, r.tags_to_check, r.ok)

RemoveTag ==
  /\ Step
  /\ \E n \in TagNames, given \in BOOLEAN, ts \in TitleLists :
    /\ ~given => ts = <<>>
    /\ LET r == remove_tag(Cur, n, [given |-> given, titles |-> ts])
       IN Set(r.g) /\ last' = Last("remove_tag", n, ts, given, <<>>, r.ok)

CreateProject ==
  /\ Step
  /\ \E p \in ProjectInputs :
    /\ Len(existing_projects) < MaxProjects
    /\ Set(create_project(Cur, p))
    /\ last' = Last("create_project", p.title, <<>>, FALSE, <<>>, TRUE)

RefreshListings ==
  /\ Step
  /\ Set(update_main_pages(Cur))
  /\ last' = Last("update", <<>>, <<>>, FALSE, <<>>, TRUE)

\* what an edit by hand can do to the region of one listing document
DamageKinds == { "missing", "nostart", "noend" }
\* the documents RefreshListings rewrites: the four singleton pages and the tag document
DamageTargets == DOMAIN ShippedPages \cup { "tag" }

\* the start marker of each singleton page
PageMarker(p) ==
  CASE p = "writeups.html" -> WriteupsStartMarker
    [] p = "tags.html" -> TagsStartMarker
    [] p = "projects.html" -> ProjectsStartMarker
    [] OTHER -> HomeStartMarker

\* doc with its start marker taken out, or with the blank line before '</main>' taken
\* out so that the end marker no longer occurs
Damaged(doc, start_marker, kind) ==
  IF kind = "nostart"
  THEN SubSeq(doc, 1, Find(doc, start_marker, 1) - 1)
         \o SubSeq(doc, Find(doc, start_marker, 1) + Len(start_marker), Len(doc))
  ELSE SelectSeq(doc, LAMBDA t : t # Ws("nlnl16"))

\* the generator constructed over the site with the renamed writeup, one of whose
\* listing documents is missing or has lost a marker
InitDamaged ==
  \E target \in DamageTargets, kind \in DamageKinds :
    /\ tagdocs = IF target # "tag" THEN (<<"x">> :> _generate_tag_html(<<"x">>, <<>>))
                 ELSE IF kind = "missing" THEN <<>>
                 ELSE (<<"x">> :> Damaged(_generate_tag_html(<<"x">>, <<>>),
                                          WriteupsStartMarker, kind))
    /\ wdocs = (RenamedFile :> RenamedDoc)
    /\ pages = [p \in DOMAIN ShippedPages \ (IF kind = "missing" THEN {target} ELSE {}) |->
                  IF p = target THEN Damaged(ShippedPages[p], PageMarker(p), kind)
                  ELSE ShippedPages[p]]
    /\ existing_tags = _load_existing_tags(tagdocs)
    /\ existing_writeups \in _load_existing_writeups(wdocs, << RenamedFile >>)
    /\ existing_projects = _load_existing_projects(pages)
    /\ last = Last("init", <<>>, <<>>, FALSE, <<>>, TRUE)
    /\ ops = MaxOps - MaxOpsDamaged

\* the title of the i-th writeup of a site that holds many
ManyTitle(i) == << "m", ToString(i) >>

RECURSIVE CreateWriteups(_, _)
\* the generator state after create_writeup has run for the first k titles, each
\* with the tag x
CreateWriteups(G, k) ==
  IF k = 0 THEN G
  ELSE create_writeup(CreateWriteups(G, k - 1), ManyTitle(k), << <<"x">> >>,
                      CHOOSE x \in Extras : TRUE).g

\* a generator on which up to MaxWriteups writeups have been created
InitMany ==
  \E k \in 0..MaxWriteups :
    LET G == CreateWriteups([tags |-> {}, writeups |-> <<>>, projects |-> <<>>,
                             tagdocs |-> <<>>, wdocs |-> <<>>, pages |-> ShippedPages], k)
    IN /\ existing_tags = G.tags
       /\ existing_writeups = G.writeups
       /\ existing_projects = G.projects
       /\ tagdocs = G.tagdocs
       /\ wdocs = G.wdocs
       /\ pages = G.pages
       /\ last = Last("init", <<>>, <<>>, FALSE, <<>>, TRUE)
       /\ ops = MaxOps - MaxOpsMany

Next ==
  \/ CreateTag
  \/ CreateWriteup
  \/ RemoveWriteup
  \/ RemoveTag
  \/ CreateProject
  \/ RefreshListings

Spec == Init /\ [][Next]_vars

\* the same commands on a generator constructed over the site with the renamed writeup
SpecLoaded == InitLoaded /\ [][Next]_vars

\* the same commands on a generator constructed over a site edited by hand
SpecDamaged == InitDamaged /\ [][Next]_vars

\* the same commands on a generator that already holds many writeups
SpecMany == InitMany /\ [][Next]_vars

(***************************************************************************)
(* The region splice on its own: one document, spliced again and again     *)
(***************************************************************************)
\* the texts of at most MaxPiece elements of A
Pieces(A) == UNION { [1..n -> A] : n \in 0..MaxPiece }

\* documents made of text over A around a start marker and an end marker, each of
\* which may also be missing
MarkedDocs(A, start_marker, end_marker) ==
  { p \o b \o m \o e \o q :
      p \in Pieces(A), m \in Pieces(A), q \in Pieces(A),
      b \in { start_marker, <<>> }, e \in { end_marker, <<>> } }

\* the writeup document whose tag container is spliced
SplicedWriteup == WriteupFilename(T3)

\* the documents of each splice site
SiteDocs(site) ==
  CASE site = "writeup" ->
         MarkedDocs({ TagStartMarker[1], DivClose, Tok("a.tag-badge", <<"y">>) },
                    TagStartMarker, TagEndMarker)
    [] site = "writeups.html" ->
         MarkedDocs({ WriteupsStartMarker[1], DivClose, Ws("nlnl16"), MainClose },
                    WriteupsStartMarker, ListEndMarker)
    [] OTHER ->
         MarkedDocs({ Mk("div.mb-4"), DivClose, MainClose }, HomeStartMarker, ListEndMarker)

\* the tag lists a tag container is rewritten for; one name holds a '</div>'
SpliceTagLists == { <<>>, << <<"x">> >>, << <<"x">>, <<"y">> >>, << <<"x", "</div>">> >> }

\* the fragments a listing region is replaced by: nothing, a tag card, a writeup card,
\* and a card whose title text holds the end marker of the region
SpliceInners ==
  { <<>>,
    _generate_tags_grid({ <<"x">> }),
    << CardOpen, Tok("text", T3), DivClose >>,
    << CardOpen, Mk("text") >> \o ListEndMarker \o << DivClose >> }

\* what the last splice was; again says that the splice before it was the same one
SpliceLast(op, name, list, ok) ==
  [op |-> op, name |-> name, list |-> list, ok |-> ok,
   again |-> last.op = op /\ last.name = name /\ last.list = list]

InitSplice ==
  \E site \in { "writeup", "writeups.html", "index.html" } :
    \E D \in SiteDocs(site) :
      /\ wdocs = IF site = "writeup" THEN (SplicedWriteup :> D) ELSE <<>>
      /\ pages = IF site = "writeup" THEN <<>> ELSE (site :> D)
      /\ tagdocs = <<>>
      /\ existing_tags = {}
      /\ existing_writeups = <<>>
      /\ existing_projects = <<>>
      /\ last = [op |-> "init", name |-> <<>>, list |-> <<>>, ok |-> TRUE, again |-> FALSE]
      /\ ops = 0

\* _update_writeup_tags on the writeup document
UpdateWriteupTags ==
  /\ ops < MaxSplices /\ ops' = ops + 1
  /\ \E f \in DOMAIN wdocs, tags \in SpliceTagLists :
       /\ Set(_update_writeup_tags(Cur, f, tags))
       /\ last' = SpliceLast("_update_writeup_tags", f, tags,
                             SpliceWriteupTags(wdocs[f], tags).found)

\* the read, find, splice and write of a listing page
UpdateListing ==
  /\ ops < MaxSplices /\ ops' = ops + 1
  /\ \E p \in DOMAIN pages, inner \in SpliceInners :
       /\ Set(UpdatePage(Cur, p, PageMarker(p), inner))
       /\ last' = SpliceLast("UpdatePage", p, inner,
                             SpliceListing(pages[p], PageMarker(p), inner).found)

NextSplice ==
  \/ UpdateWriteupTags
  \/ UpdateListing

SpecSplice == InitSplice /\ [][NextSplice]_vars

(***************************************************************************)
(* remove_writeup one statement group at a time: last.pc is the statement  *)
(* group that runs next                                                    *)
(***************************************************************************)
\* the number of remove_writeup calls of one behaviour
MaxCascades == 2

\* the titles of the writeups of the site, in creation order
CascadeTitles == << T1, T3, ManyTitle(1) >>

\* the tag lists the writeups of the site were created with
CascadeTagLists == { << <<"x">> >>, << <<"y">> >>, << <<"x">>, <<"y">> >> }

RECURSIVE CascadeWriteups(_, _)
\* the generator state after create_writeup has run for the first Len(lists) titles
CascadeWriteups(G, lists) ==
  IF lists = <<>> THEN G
  ELSE create_writeup(CascadeWriteups(G, SubSeq(lists, 1, Len(lists) - 1)),
                      CascadeTitles[Len(lists)], lists[Len(lists)],
                      CHOOSE x \in Extras : TRUE).g

\* remove_writeup with the listings refreshed before the cards are purged
AfterStepRefreshEarly(pc) ==
  CASE pc = "unlink" -> "remove"
    [] pc = "remove" -> "refresh"
    [] pc = "refresh" -> "purge"
    [] pc = "purge" -> "cleanup"
    [] OTHER -> "returned"

\* the statement group that follows pc in remove_writeup
AfterStep(pc) ==
  CASE pc = "unlink" -> "remove"
    [] pc = "remove" -> "purge"
    [] pc = "purge" -> "cleanup"
    [] pc = "cleanup" -> "refresh"
    [] OTHER -> "returned"

\* where remove_writeup(name) stands: pc is the next statement group, unlink what the
\* deletion of the file came to, ok the value returned
CascadeLast(pc, name, tags_to_check, unlink, ok) ==
  [op |-> "remove_writeup", pc |-> pc, name |-> name, tags_to_check |-> tags_to_check,
   unlink |-> unlink, ok |-> ok]

\* a generator on which up to three writeups were created and the listings refreshed;
\* the file of one writeup may have been deleted by hand since
InitCascade ==
  \E n \in 1..Len(CascadeTitles) :
    \E lists \in [1..n -> CascadeTagLists], gone \in 0..n :
      LET G == update_main_pages(
                 CascadeWriteups([tags |-> {}, writeups |-> <<>>, projects |-> <<>>,
                                  tagdocs |-> <<>>, wdocs |-> <<>>,
                                  pages |-> ShippedPages], lists))
      IN /\ existing_tags = G.tags
         /\ existing_writeups = G.writeups
         /\ existing_projects = G.projects
         /\ tagdocs = G.tagdocs
         /\ wdocs = IF gone = 0 THEN G.wdocs
                    ELSE Unlink(G.wdocs, WriteupFilename(CascadeTitles[gone]))
         /\ pages = G.pages
         /\ last = [op |-> "init", pc |-> "returned", name |-> <<>>,
                    tags_to_check |-> <<>>, unlink |-> "none", ok |-> TRUE]
         /\ ops = 0

\* the call and the search for the writeup in existing_writeups
CascadeLookup ==
  /\ last.pc = "returned"
  /\ ops < MaxCascades /\ ops' = ops + 1
  /\ \E title \in Range(CascadeTitles) :
       LET i == FindByFilename(existing_writeups, WriteupFilename(title))
       IN last' = IF i = 0
                  THEN CascadeLast("returned", title, <<>>, "none", FALSE)
                  ELSE CascadeLast("unlink", title, existing_writeups[i].tags, "none", TRUE)
  /\ UNCHANGED << existing_tags, existing_writeups, existing_projects, tagdocs, wdocs, pages >>

\* "Remove the writeup file": the file is deleted, or is reported missing, or the
\* deletion raises and remove_writeup returns False
CascadeUnlink ==
  /\ last.pc = "unlink"
  /\ LET filename == WriteupFilename(last.name)
     IN \/ /\ Exists(wdocs, filename)
           /\ wdocs' = Unlink(wdocs, filename)
           /\ last' = [last EXCEPT !.pc = AfterStep("unlink"), !.unlink = "deleted"]
        \/ /\ ~Exists(wdocs, filename)
           /\ wdocs' = wdocs
           /\ last' = [last EXCEPT !.pc = AfterStep("unlink"), !.unlink = "missing"]
        \/ /\ Exists(wdocs, filename)
           /\ wdocs' = wdocs
           /\ last' = [last EXCEPT !.pc = "returned", !.unlink = "error", !.ok = FALSE]
  /\ UNCHANGED << existing_tags, existing_writeups, existing_projects, tagdocs, pages, ops >>

\* "Remove from existing writeups list"
CascadeRemoveFromModel ==
  /\ last.pc = "remove"
  /\ existing_writeups' = RemoveAt(existing_writeups,
                                   FindByFilename(existing_writeups,
                                                  WriteupFilename(last.name)))
  /\ last' = [last EXCEPT !.pc = AfterStep("remove")]
  /\ UNCHANGED << existing_tags, existing_projects, tagdocs, wdocs, pages, ops >>

\* "Remove broken links from tag pages"
CascadePurge ==
  /\ last.pc = "purge"
  /\ Set(_remove_broken_links_from_tags(Cur, WriteupFilename(last.name)))
  /\ last' = [last EXCEPT !.pc = AfterStep("purge")]
  /\ UNCHANGED ops

\* "Clean up unused tags"
CascadeCleanup ==
  /\ last.pc = "cleanup"
  /\ Set(_cleanup_unused_tags(Cur, last.tags_to_check))
  /\ last' = [last EXCEPT !.pc = AfterStep("cleanup")]
  /\ UNCHANGED ops

\* "Update the main pages to reflect the removal", and the return
CascadeRefresh ==
  /\ last.pc = "refresh"
  /\ Set(update_main_pages(Cur))
  /\ last' = [last EXCEPT !.pc = AfterStep("refresh")]
  /\ UNCHANGED ops

\* the statement groups of a call that has begun
CascadeStep ==
  \/ CascadeUnlink
  \/ CascadeRemoveFromModel
  \/ CascadePurge
  \/ CascadeCleanup
  \/ CascadeRefresh

NextCascade ==
  \/ CascadeLookup
  \/ CascadeStep

SpecCascade == InitCascade /\ [][NextCascade]_vars

\* the call that is running moves on to another statement group, or returns; that is
\* every step of CascadeStep, seen at the position of the call alone
CascadeAdvance ==
  /\ last.pc # "returned"
  /\ \E pc \in { "remove", "purge", "cleanup", "refresh", "returned" },
        unlink \in { "none", "deleted", "missing", "error" }, ok \in BOOLEAN :
       last' = [last EXCEPT !.pc = pc, !.unlink = unlink, !.ok = ok]

\* a call that has begun runs on: the statements of remove_writeup run one after the
\* other in one thread, and no statement waits for anything
SpecCascadeFair == SpecCascade /\ WF_last(CascadeAdvance)

(***************************************************************************)
(* Projects: a generator constructed over a site that may already list a   *)
(* project, on which further projects are added                            *)
(***************************************************************************)
\* the number of commands of one behaviour, and the most projects the model holds
MaxOpsProjects == 3
MaxListed == 3

\* the project the site lists before the generator is constructed
EarlierProject == [title |-> <<"O">>, description |-> <<"d">>, url |-> <<"v">>,
                   date |-> <<"earlier">>]

\* the projects added; the second comes with its date
MoreProjects ==
  { [title |-> <<"P">>, description |-> <<"q">>, url |-> <<"u">>, date |-> Empty],
    [title |-> <<"Q">>, description |-> <<"q">>, url |-> <<"w">>, date |-> <<"then">>] }

\* the generator constructed over a site whose projects listing holds no project or
\* the earlier one
InitProjects ==
  \E k \in 0..1 :
    /\ pages = [ShippedPages EXCEPT !["projects.html"] =
                  SpliceListing(@, ProjectsStartMarker,
                                _generate_projects_grid(
                                  IF k = 0 THEN <<>> ELSE << EarlierProject >>)).content]
    /\ tagdocs = <<>>
    /\ wdocs = <<>>
    /\ existing_tags = _load_existing_tags(tagdocs)
    /\ existing_writeups = <<>>
    /\ existing_projects = _load_existing_projects(pages)
    /\ last = Last("init", <<>>, <<>>, FALSE, <<>>, TRUE)
    /\ ops = MaxOps - MaxOpsProjects

\* the project command, for one of several projects
AddProject ==
  /\ Step
  /\ \E p \in MoreProjects :
    /\ Len(existing_projects) < MaxListed
    /\ Set(create_project(Cur, p))
    /\ last' = Last("create_project", p.title, <<>>, FALSE, <<>>, TRUE)

NextProjects ==
  \/ AddProject
  \/ CreateWriteup
  \/ RemoveWriteup
  \/ RefreshListings

SpecProjects == InitProjects /\ [][NextProjects]_vars

(***************************************************************************)
(* A generator constructed over a site an earlier run has written          *)
(***************************************************************************)
\* the commands run on the reloaded site
MaxOpsReloaded == 2

\* the tag lists of the writeup the earlier run created
ReloadedTagLists == { << <<"x">> >>, << <<"x">>, <<"y">> >>, << <<"y">>, <<"x">> >> }

\* an earlier run has created one writeup on the empty site and has ended; the
\* generator is constructed over the files it left, the tags of the writeup coming
\* out of list(set(...)) in any order
InitReloaded ==
  \E title \in {T1, T3}, tags \in ReloadedTagLists :
    LET G == create_writeup([tags |-> {}, writeups |-> <<>>, projects |-> <<>>,
                             tagdocs |-> <<>>, wdocs |-> <<>>, pages |-> ShippedPages],
                            title, tags,
                            [machine_photo |-> <<"p">>, created_date |-> <<"earlier">>,
                             updated_date |-> <<"earlier">>, difficulty |-> <<"e">>,
                             os_type |-> Empty, ip_address |-> Empty]).g
    IN /\ tagdocs = G.tagdocs
       /\ wdocs = G.wdocs
       /\ pages = G.pages
       /\ existing_tags = _load_existing_tags(tagdocs)
       /\ existing_writeups \in _load_existing_writeups(wdocs, << WriteupFilename(title) >>)
       /\ existing_projects = _load_existing_projects(pages)
       /\ last = Last("init", <<>>, <<>>, FALSE, <<>>, TRUE)
       /\ ops = MaxOps - MaxOpsReloaded

SpecReloaded == InitReloaded /\ [][Next]_vars

(***************************************************************************)
(* Properties                                                              *)
(***************************************************************************)
prog == <<existing_tags, existing_writeups, existing_projects, tagdocs, wdocs, pages>>

\* some writeup of the model carries tag t
Referenced(t) == t \in UsedTags(existing_writeups)
\* the tag document of t exists and no writeup of the model carries t
Unreferenced(t) == Exists(tagdocs, t) /\ ~Referenced(t)
\* the tokens of a listing card of the writeup stored under filename occur in doc
Mentions(doc, filename) == FirstMention(doc, filename, 1) # 0
\* the text between the first tag-container start marker of doc and the next '</div>'
TagRegion(doc) ==
  LET s == Find(doc, TagStartMarker, 1)
      e == Find(doc, TagEndMarker, s + Len(TagStartMarker))
  IN IF s = 0 \/ e = 0 THEN <<>> ELSE SubSeq(doc, s + Len(TagStartMarker), e - 1)
\* title is, ignoring case, one of the titles of list
TitleIn(title, list) == \E k \in DOMAIN list : Lower(list[k]) = Lower(title)

\* C1: after any sequence of CreateTag, CreateWriteup, RemoveTag and RemoveWriteup,
\* every tag name in the tag list of every writeup of the model has a tag document.
C1_EveryWriteupTagHasDocument ==
  \A i \in DOMAIN existing_writeups :
    \A t \in Range(existing_writeups[i].tags) : Exists(tagdocs, t)

\* C2 (as claimed): a tag document that no writeup references comes to exist only by
\* an explicit CreateTag called with no target writeups.
C2_UnreferencedOnlyByCreateTagWithoutTargets ==
  [][\A t \in TagNames :
       (~Unreferenced(t) /\ Unreferenced(t)') =>
         (last'.op = "create_tag" /\ last'.name = t /\ last'.ok /\ last'.list = <<>>)]_vars

\* C2 (amended): a tag document that no writeup references comes to exist only by a
\* successful explicit CreateTag of that tag (which then attached it to no writeup:
\* no targets, or no target that resolved); CreateWriteup with its implicit
\* creation, RemoveTag and RemoveWriteup never leave one behind.
C2_UnreferencedOnlyByExplicitCreateTag ==
  [][\A t \in TagNames :
       (~Unreferenced(t) /\ Unreferenced(t)') =>
         (last'.op = "create_tag" /\ last'.name = t /\ last'.ok)]_vars

\* an explicit CreateTag with target titles has left its tag document unreferenced
C2_Witness ==
  /\ last.op = "create_tag" /\ last.ok /\ last.list # <<>>
  /\ Unreferenced(last.name)

\* C3: after a successful RemoveWriteup(title) the writeup's document is deleted, the
\* writeup is not in the model, and every tag that only the removed writeup
\* referenced has its document deleted and its name removed from the tag set.
C3_RemoveWriteupDropsOrphanedTags ==
  [][(last'.op = "remove_writeup" /\ last'.ok) =>
       LET f == WriteupFilename(last'.name)
           i == FindByFilename(existing_writeups, f)
       IN /\ ~Exists(wdocs', f)
          /\ FindByFilename(existing_writeups', f) = 0
          /\ \A t \in Range(existing_writeups[i].tags) :
               (\A j \in DOMAIN existing_writeups \ {i} :
                  t \notin Range(existing_writeups[j].tags))
               => (~Exists(tagdocs', t) /\ t \notin existing_tags')]_vars

\* C4: after a successful RemoveWriteup the global tags listing has a card for a tag
\* only if that tag's document exists, and no listing page and no tag document
\* mentions the removed writeup's filename.
C4_ListingsReflectRemoval ==
  (last.op = "remove_writeup" /\ last.ok) =>
    /\ \A t \in TagNames :
         Tok("a.tag-badge", <<"tags/">> \o TagFilename(t)) \in Range(pages["tags.html"])
           => Exists(tagdocs, t)
    /\ \A p \in DOMAIN pages : ~Mentions(pages[p], WriteupFilename(last.name))
    /\ \A t \in DOMAIN tagdocs : ~Mentions(tagdocs[t], WriteupFilename(last.name))

\* C5: after RemoveTag(name) without a from-list on an existing tag, no writeup of the
\* model carries name, the tag document is deleted and name is not in the tag set.
C5_RemoveTagDetachesEverywhere ==
  (last.op = "remove_tag" /\ last.ok /\ ~last.given) =>
    /\ ~Referenced(last.name)
    /\ ~Exists(tagdocs, last.name)
    /\ last.name \notin existing_tags

\* C6: RemoveTag(name, from_writeup_titles=L), for any given list L (the empty list
\* too), leaves every writeup whose title is not in L as it was, document included.
C6_RemoveTagFromListTouchesOnlyListed ==
  [][(last'.op = "remove_tag" /\ last'.given) =>
       \A i \in DOMAIN existing_writeups :
         ~TitleIn(existing_writeups[i].title, last'.list) =>
           /\ i \in DOMAIN existing_writeups'
           /\ existing_writeups'[i] = existing_writeups[i]
           /\ Exists(wdocs', existing_writeups[i].filename)
           /\ wdocs'[existing_writeups[i].filename] = wdocs[existing_writeups[i].filename]]_vars

\* C7: after RemoveTag(name, ...) on an existing tag, the tag document is deleted and
\* name removed from the tag set exactly when no writeup of the model still carries
\* name; while one does, the document and the tag-set entry are both kept.
C7_TagDeletedIffUnused ==
  [][(last'.op = "remove_tag" /\ Exists(tagdocs, last'.name)) =>
       /\ last'.ok
       /\ IF last'.name \in UsedTags(existing_writeups')
          THEN /\ Exists(tagdocs', last'.name)
               /\ tagdocs'[last'.name] = tagdocs[last'.name]
               /\ last'.name \in existing_tags'
          ELSE /\ ~Exists(tagdocs', last'.name)
               /\ last'.name \notin existing_tags']_vars

\* RemoveTag has detached the tag from a listed writeup and another writeup keeps it
C7_Witness ==
  /\ last.op = "remove_tag" /\ last.ok /\ last.given
  /\ Referenced(last.name) /\ Exists(tagdocs, last.name)
  /\ \E i \in DOMAIN existing_writeups :
       /\ TitleIn(existing_writeups[i].title, last.list)
       /\ last.name \notin Range(existing_writeups[i].tags)

\* C8: after a successful CreateWriteup(title, tags) every name in tags has a tag
\* document and is in the tag set, exactly one writeup document is new, and its tag
\* region holds a link to each name in tags.
C8_CreateWriteupCreatesItsTags ==
  [][(last'.op = "create_writeup" /\ last'.ok) =>
       LET f == WriteupFilename(last'.name)
       IN /\ f \notin DOMAIN wdocs
          /\ DOMAIN wdocs' = DOMAIN wdocs \cup {f}
          /\ \A t \in Range(last'.list) :
               /\ Exists(tagdocs', t)
               /\ t \in existing_tags'
               /\ Tok("a.tag-badge", <<"../tags/">> \o TagFilename(t))
                    \in Range(TagRegion(wdocs'[f]))]_vars

\* C9: CreateWriteup whose filename already has a document fails and changes nothing
\* (no tag is created), and the model holds exactly one writeup with that filename.
C9_DuplicateWriteupRejected ==
  [][(last'.op = "create_writeup" /\ Exists(wdocs, WriteupFilename(last'.name))) =>
       /\ ~last'.ok
       /\ UNCHANGED prog
       /\ Cardinality({ i \in DOMAIN existing_writeups' :
                          existing_writeups'[i].filename = WriteupFilename(last'.name) }) = 1]_vars

\* a CreateWriteup was rejected although one of its tags is not in the tag set
C9_Witness ==
  /\ last.op = "create_writeup" /\ ~last.ok
  /\ \E t \in Range(last.list) : t \notin existing_tags

\* C10: CreateTag(name, description, targets) when the tag document of name exists
\* fails and changes nothing, whatever the targets.
C10_DuplicateTagRejected ==
  [][(last'.op = "create_tag" /\ Exists(tagdocs, last'.name)) =>
       (~last'.ok /\ UNCHANGED prog)]_vars

\* a CreateTag was rejected although a target resolves to a writeup without the tag
C10_Witness ==
  /\ last.op = "create_tag" /\ ~last.ok
  /\ \E k \in DOMAIN last.list :
       /\ FindByTitle(existing_writeups, last.list[k]) # 0
       /\ last.name \notin Range(existing_writeups[FindByTitle(existing_writeups, last.list[k])].tags)

\* the tokens of a text that are not whitespace
NonWs(doc) == SelectSeq(doc, LAMBDA t : t.k # "ws")

\* C11: a CreateTag(name, description, targets) on a name without a tag document
\* succeeds, writes the tag document, adds name to the tag set, and for each target
\* title that resolves to a writeup not already carrying name appends name to that
\* writeup and rewrites its tag region; an unresolved title is skipped and the titles
\* after it are still processed.
C11_CreateTagAttachesToResolvedTargets ==
  [][(last'.op = "create_tag" /\ ~Exists(tagdocs, last'.name)) =>
       /\ last'.ok
       /\ Exists(tagdocs', last'.name)
       /\ \E d \in Descriptions : tagdocs'[last'.name] = _generate_tag_html(last'.name, d)
       /\ existing_tags' = existing_tags \cup {last'.name}
       /\ \A k \in DOMAIN last'.list :
            LET i == FindByTitle(existing_writeups, last'.list[k])
            IN i # 0 =>
                 /\ i \in DOMAIN existing_writeups'
                 /\ IF last'.name \in Range(existing_writeups[i].tags)
                    THEN existing_writeups'[i] = existing_writeups[i]
                    ELSE /\ existing_writeups'[i].tags
                              = Append(existing_writeups[i].tags, last'.name)
                         /\ Exists(wdocs', existing_writeups[i].filename)
                         /\ NonWs(TagRegion(wdocs'[existing_writeups[i].filename]))
                              = NonWs(TagLinks("../tags/", existing_writeups'[i].tags))]_vars

\* a CreateTag whose first target title resolves to no writeup has attached the tag to
\* the writeup its second title names
C11_Witness ==
  /\ last.op = "create_tag" /\ last.ok /\ Len(last.list) = 2
  /\ FindByTitle(existing_writeups, last.list[1]) = 0
  /\ FindByTitle(existing_writeups, last.list[2]) # 0
  /\ LET w == existing_writeups[FindByTitle(existing_writeups, last.list[2])]
     IN /\ w.tags[Len(w.tags)] = last.name
        /\ Len(w.tags) > 1
        /\ Tok("a.tag-badge", <<"../tags/">> \o TagFilename(last.name))
             \in Range(TagRegion(wdocs[w.filename]))

\* C12: RemoveWriteup(title) when no writeup of the model has the filename derived from
\* title fails and changes nothing: no document is deleted or rewritten, and the
\* writeups and the tag set of the model are as before, even when a writeup of the
\* model has title as its stored title.
C12_RemoveUnknownWriteupChangesNothing ==
  [][(last'.op = "remove_writeup"
        /\ FindByFilename(existing_writeups, WriteupFilename(last'.name)) = 0) =>
       (~last'.ok /\ UNCHANGED prog)]_vars

\* a RemoveWriteup was rejected although a writeup of the model, and its document,
\* carries exactly the title given
C12_Witness ==
  /\ last.op = "remove_writeup" /\ ~last.ok
  /\ \E i \in DOMAIN existing_writeups :
       /\ existing_writeups[i].title = last.name
       /\ Exists(wdocs, existing_writeups[i].filename)

\* the text between the first start_marker of doc and the listing end marker found
\* from there on, <<>> if either is missing
ListingRegion(doc, start_marker) ==
  LET b == Find(doc, start_marker, 1)
      e == IF b = 0 THEN 0 ELSE Find(doc, ListEndMarker, b)
  IN IF b = 0 \/ e = 0 THEN <<>> ELSE SubSeq(doc, b + Len(start_marker), e - 1)

\* the markup of a region: its tokens other than whitespace and comments
Markup(region) == SelectSeq(region, LAMBDA t : t.k # "ws" /\ t.k # "comment")

\* the member-listing region of every tag document on disk holds exactly the cards of
\* the writeups of the model that carry the tag, in model order
TagPagesListExactly ==
  \A t \in DOMAIN tagdocs :
    Markup(ListingRegion(tagdocs[t], WriteupsStartMarker))
      = Markup(_generate_writeup_cards_for_tag(WriteupsWithTag(existing_writeups, t)))

\* every writeup of the model is listed on the document of each tag it carries
EveryWriteupListedOnItsTags ==
  \A i \in DOMAIN existing_writeups :
    \A t \in Range(existing_writeups[i].tags) :
      /\ Exists(tagdocs, t)
      /\ Mentions(ListingRegion(tagdocs[t], WriteupsStartMarker),
                  existing_writeups[i].filename)

\* C13: after RefreshListings the member-listing region of every tag document on disk
\* holds exactly one card for each writeup of the model that carries the tag, in
\* model order, and no other card; and every writeup is listed on the document of
\* each tag it carries.
C13_TagPagesListTheirWriteups ==
  (last.op = "update") => (TagPagesListExactly /\ EveryWriteupListedOnItsTags)

\* C14: RefreshListings is idempotent: run again on the state a RefreshListings has
\* left, it leaves the writeups, tags, projects and home listings and every tag
\* document exactly as they are (and the model unchanged).
C14_RefreshListingsIdempotent ==
  (last.op = "update") => (update_main_pages(Cur) = Cur)

\* RefreshListings has run on a model with a project and two writeups that share a
\* tag, and the tag's document lists both
C14_Witness ==
  /\ last.op = "update"
  /\ Len(existing_projects) > 0
  /\ Len(existing_writeups) = 2
  /\ \E t \in DOMAIN tagdocs :
       /\ Len(WriteupsWithTag(existing_writeups, t)) = 2
       /\ \A i \in DOMAIN existing_writeups :
            Mentions(ListingRegion(tagdocs[t], WriteupsStartMarker),
                     existing_writeups[i].filename)

\* doc holds start_marker and, from there on, the listing end marker
HasRegion(doc, start_marker) ==
  /\ Find(doc, start_marker, 1) # 0
  /\ Find(doc, ListEndMarker, Find(doc, start_marker, 1)) # 0

\* what the region of singleton page p is generated from
PageInner(p) ==
  CASE p = "writeups.html" -> _generate_writeups_grid(existing_writeups)
    [] p = "tags.html" -> _generate_tags_grid(existing_tags)
    [] p = "projects.html" -> _generate_projects_grid(existing_projects)
    [] OTHER -> _generate_recent_posts(existing_writeups)

\* C15: in RefreshListings a target document that is missing, or whose start or end
\* marker cannot be located, is left as it is (no document is created), and every
\* other target whose markers are present is still regenerated from the model.
C15_RefreshSkipsOnlyDamagedTargets ==
  [][(last'.op = "update") =>
       /\ DOMAIN pages' = DOMAIN pages
       /\ DOMAIN tagdocs' = DOMAIN tagdocs
       /\ \A p \in DOMAIN ShippedPages :
            IF Exists(pages, p) /\ HasRegion(pages[p], PageMarker(p))
            THEN Markup(ListingRegion(pages'[p], PageMarker(p))) = Markup(PageInner(p))
            ELSE Exists(pages, p) => pages'[p] = pages[p]
       /\ \A t \in UsedTags(existing_writeups) :
            IF Exists(tagdocs, t) /\ HasRegion(tagdocs[t], WriteupsStartMarker)
            THEN Markup(ListingRegion(tagdocs'[t], WriteupsStartMarker))
                   = Markup(_generate_writeup_cards_for_tag(
                              WriteupsWithTag(existing_writeups, t)))
            ELSE Exists(tagdocs, t) => tagdocs'[t] = tagdocs[t]]_vars

\* RefreshListings has run although the first page it updates, the writeups listing,
\* is missing or has lost a marker, and the home page and a tag document, which it
\* updates later, list a writeup
C15_Witness ==
  /\ last.op = "update"
  /\ ~(Exists(pages, "writeups.html")
         /\ HasRegion(pages["writeups.html"], WriteupsStartMarker))
  /\ Exists(pages, "index.html")
  /\ Markup(ListingRegion(pages["index.html"], HomeStartMarker)) # <<>>
  /\ \E t \in DOMAIN tagdocs :
       Markup(ListingRegion(tagdocs[t], WriteupsStartMarker)) # <<>>

\* the link targets of the writeup cards of a region, in document order
CardLinks(region) ==
  LET a == SelectSeq(region, LAMBDA t : t.k = "a")
  IN [i \in DOMAIN a |-> a[i].v]

\* the number of elements of kind k in a region
Count(region, k) == Len(SelectSeq(region, LAMBDA t : t.k = k))

\* the tag names of the tag cards of a region, in document order
TagCardNames(region) ==
  LET at == SelectSeq([i \in DOMAIN region |-> i],
                      LAMBDA i : i > 1 /\ region[i].k = "a.tag-badge"
                                 /\ region[i - 1].k = "div.tag-card")
  IN [n \in DOMAIN at |-> SubSeq(region[at[n]].v, 3, Len(region[at[n]].v) - 1)]

\* the writeups listing of pgs holds one card per writeup of writeups, in that order
WriteupsListed(pgs, writeups) ==
  LET region == ListingRegion(pgs["writeups.html"], WriteupsStartMarker)
  IN /\ Count(region, CardOpen.k) = Len(writeups)
     /\ CardLinks(region) = [i \in DOMAIN writeups |-> <<"writeups/">> \o writeups[i].filename]

\* the tags listing of pgs holds one card per name of tags, in lexicographic order
TagsListed(pgs, tags) ==
  LET region == ListingRegion(pgs["tags.html"], TagsStartMarker)
      names == TagCardNames(region)
  IN /\ Count(region, "div.tag-card") = Cardinality(tags)
     /\ Len(names) = Cardinality(tags)
     /\ Range(names) = tags
     /\ \A i \in 1..(Len(names) - 1) : LexLess(names[i], names[i + 1])

\* C16: CreateWriteup appends the new writeup at the end of the model's list; and
\* after RefreshListings the writeups listing holds exactly one card per writeup of
\* the model in stored order, and the tags listing exactly one card per name of the
\* tag set in lexicographic order.
C16_ListingsFollowModelOrder ==
  [][/\ (last'.op = "create_writeup" /\ last'.ok) =>
          /\ Len(existing_writeups') = Len(existing_writeups) + 1
          /\ SubSeq(existing_writeups', 1, Len(existing_writeups)) = existing_writeups
          /\ existing_writeups'[Len(existing_writeups')].title = last'.name
     /\ (last'.op = "update") =>
          /\ WriteupsListed(pages', existing_writeups')
          /\ TagsListed(pages', existing_tags')]_vars

\* RefreshListings has run on a model of two writeups and two tags, and both listings
\* show two cards
C16_Witness ==
  /\ last.op = "update"
  /\ Len(existing_writeups) = 2 /\ Cardinality(existing_tags) = 2
  /\ Len(CardLinks(ListingRegion(pages["writeups.html"], WriteupsStartMarker))) = 2
  /\ Len(TagCardNames(ListingRegion(pages["tags.html"], TagsStartMarker))) = 2

\* the recent-items listing of pgs holds one card per writeup of writeups, newest first
RecentListed(pgs, writeups) ==
  LET region == ListingRegion(pgs["index.html"], HomeStartMarker)
  IN /\ Count(region, RecentCardOpen.k) = Len(writeups)
     /\ CardLinks(region)
          = [i \in DOMAIN writeups |->
               <<"writeups/">> \o writeups[Len(writeups) + 1 - i].filename]

SplicedDoc(w, pg) ==
  IF DOMAIN w # {} THEN w[CHOOSE f \in DOMAIN w : TRUE]
  ELSE pg[CHOOSE q \in DOMAIN pg : TRUE]

\* the marker pair of the splice step recorded in l
StartOf(l) == IF l.op = "_update_writeup_tags" THEN TagStartMarker ELSE PageMarker(l.name)
EndOf(l) == IF l.op = "_update_writeup_tags" THEN TagEndMarker ELSE ListEndMarker
\* the replacement text X of the splice step recorded in l
NewInner(l) == IF l.op = "_update_writeup_tags" THEN TagLinks("../tags/", l.list) ELSE l.list

\* the text of doc between the end of its first start marker b and the next end marker e
RegionBetween(doc, b, e) ==
  LET i == Find(doc, b, 1)
      j == IF i = 0 THEN 0 ELSE Find(doc, e, i + Len(b))
  IN IF i = 0 \/ j = 0 THEN <<>> ELSE SubSeq(doc, i + Len(b), j - 1)

\* a splice step has been taken and found its region
Spliced(l) == l.op \in { "_update_writeup_tags", "UpdatePage" } /\ l.ok

\* C18 (as claimed): after a splice of a document with a valid marker pair, for any
\* replacement text X, the text read back between the end of the first start marker
\* and the next end marker is exactly X.
C18_SpliceRoundTrip ==
  [][Spliced(last') =>
       RegionBetween(SplicedDoc(wdocs', pages'), StartOf(last'), EndOf(last'))
         = NewInner(last')]_vars

\* C18 (amended): after a splice of a document with a valid marker pair, for a
\* replacement text X that does not hold the end marker, the text read back between
\* the end of the first start marker and the next end marker is X with one
\* whitespace separator before it and one after it.
C18_SpliceRoundTripUpToSeparators ==
  [][(Spliced(last') /\ ~Contains(NewInner(last'), EndOf(last'))) =>
       LET R == RegionBetween(SplicedDoc(wdocs', pages'), StartOf(last'), EndOf(last'))
       IN /\ Len(R) = Len(NewInner(last')) + 2
          /\ R[1].k = "ws" /\ R[Len(R)].k = "ws"
          /\ SubSeq(R, 2, Len(R) - 1) = NewInner(last')]_vars

\* a splice has put a text of several elements, none of them an end marker, into a
\* document that holds its start marker twice
C18_Witness ==
  /\ Spliced(last)
  /\ Len(NewInner(last)) > 1 /\ ~Contains(NewInner(last), EndOf(last))
  /\ LET D == SplicedDoc(wdocs, pages)
     IN Find(D, StartOf(last), Find(D, StartOf(last), 1) + 1) # 0

\* C19 (as claimed): for any replacement text X, a splice applied a second time with
\* the same X leaves the document as the first application left it.
C19_SpliceIdempotent ==
  [][(last'.op \in { "_update_writeup_tags", "UpdatePage" } /\ last'.again) =>
       (wdocs' = wdocs /\ pages' = pages)]_vars

\* C19 (amended): for a replacement text X that does not hold the end marker, a
\* splice applied a second time with the same X leaves the document as the first
\* application left it.
C19_SpliceIdempotentWithoutEndMarker ==
  [][(last'.op \in { "_update_writeup_tags", "UpdatePage" } /\ last'.again
        /\ ~Contains(NewInner(last'), EndOf(last'))) =>
       (wdocs' = wdocs /\ pages' = pages)]_vars

\* the same splice, of a text without the end marker, has been applied twice in a row
\* to a document with a valid marker pair
C19_Witness ==
  /\ Spliced(last) /\ last.again
  /\ NewInner(last) # <<>> /\ ~Contains(NewInner(last), EndOf(last))

\* C20: a successful splice leaves the text of the document up to and including the
\* first start marker, and the text from the matched end marker to the end of the
\* document, unchanged; only the text between the two markers differs.
C20_SpliceFrame ==
  [][Spliced(last') =>
       LET D == SplicedDoc(wdocs, pages)
           N == SplicedDoc(wdocs', pages')
           b == Find(D, StartOf(last'), 1) + Len(StartOf(last')) - 1
           e == Find(D, EndOf(last'), b + 1)
       IN /\ DOMAIN wdocs' = DOMAIN wdocs /\ DOMAIN pages' = DOMAIN pages
          /\ Len(N) >= b + (Len(D) - e + 1)
          /\ SubSeq(N, 1, b) = SubSeq(D, 1, b)
          /\ SubSeq(N, Len(N) - (Len(D) - e), Len(N)) = SubSeq(D, e, Len(D))
          /\ SubSeq(N, b + 1, Len(N) - (Len(D) - e) - 1)
               = << N[b + 1] >> \o NewInner(last') \o << N[Len(N) - (Len(D) - e) - 1] >>]_vars

\* a splice of a text that itself holds the end marker has been applied to a document
\* with text before its start marker and text after its end marker
C20_Witness ==
  /\ Spliced(last)
  /\ Contains(NewInner(last), EndOf(last))
  /\ LET D == SplicedDoc(wdocs, pages)
     IN /\ Find(D, StartOf(last), 1) > 1
        /\ D[Len(D)] # EndOf(last)[Len(EndOf(last))]

\* the places of doc where the marker m stands
Occurrences(doc, m) ==
  { i \in 1..(Len(doc) - Len(m) + 1) : SubSeq(doc, i, i + Len(m) - 1) = m }

\* doc has no start marker b, or no end marker e after the end of its first b
NoMarkerPair(doc, b, e) ==
  \/ Occurrences(doc, b) = {}
  \/ LET i == CHOOSE i \in Occurrences(doc, b) : \A j \in Occurrences(doc, b) : i <= j
     IN \A j \in Occurrences(doc, e) : j < i + Len(b)

\* C21: a splice of a document whose start marker is absent, or whose first start
\* marker is followed by no end marker, reports that it found no region and writes
\* nothing: every document stays as it was.
C21_NoRegionNoWrite ==
  [][(last'.op \in { "_update_writeup_tags", "UpdatePage" }
        /\ NoMarkerPair(SplicedDoc(wdocs, pages), StartOf(last'), EndOf(last'))) =>
       (~last'.ok /\ wdocs' = wdocs /\ pages' = pages)]_vars

\* a splice of a non-empty text has been refused on a document that holds the start
\* marker, with text after it, but no end marker behind it
C21_Witness ==
  /\ last.op \in { "_update_writeup_tags", "UpdatePage" } /\ ~last.ok
  /\ NewInner(last) # <<>>
  /\ LET D == SplicedDoc(wdocs, pages)
     IN /\ Occurrences(D, StartOf(last)) # {}
        /\ NoMarkerPair(D, StartOf(last), EndOf(last))
        /\ D[Len(D)] # StartOf(last)[Len(StartOf(last))]

\* the writeups of a list whose file is not filename
RECURSIVE WithoutFile(_, _)
WithoutFile(writeups, filename) ==
  IF writeups = <<>> THEN <<>>
  ELSE (IF Head(writeups).filename = filename THEN <<>> ELSE << Head(writeups) >>)
         \o WithoutFile(Tail(writeups), filename)

\* the kinds of the elements a writeup card opens
CardDivs == { DivOpen.k, CardOpen.k, "div.tag-container", "div.d-none" }

\* the nesting depth after the first n elements of the markup m
Depth(m, n) ==
  Len(SelectSeq(SubSeq(m, 1, n), LAMBDA t : t.k \in CardDivs))
    - Len(SelectSeq(SubSeq(m, 1, n), LAMBDA t : t = DivClose))

\* the cards of the member-listing region of a tag document, in document order: each
\* runs from a card's opening element to the element that closes it
CardsOn(doc) ==
  LET m == Markup(ListingRegion(doc, WriteupsStartMarker))
      opens == SelectSeq([i \in DOMAIN m |-> i], LAMBDA i : m[i] = CardOpen)
      closing(p) == { q \in p..Len(m) : Depth(m, q) = Depth(m, p - 1) }
      block(p) == IF closing(p) = {} THEN SubSeq(m, p, Len(m))
                  ELSE SubSeq(m, p, CHOOSE q \in closing(p) : \A r \in closing(p) : q <= r)
  IN [n \in DOMAIN opens |-> block(opens[n])]

\* the card purge of remove_writeup is the step being taken
Purging == last.op = "remove_writeup" /\ last.pc = "purge"

\* C22: the card purge, applied to a tag document that holds the cards of several
\* writeups, removes every card that links to the deleted writeup's file and leaves
\* every other card of the document as it was, in the same order.
C22_PurgeRemovesOnlyNamedCards ==
  [][Purging =>
       \A t \in DOMAIN tagdocs :
         /\ Exists(tagdocs', t)
         /\ CardsOn(tagdocs'[t])
              = SelectSeq(CardsOn(tagdocs[t]),
                          LAMBDA c : ~Mentions(c, WriteupFilename(last.name)))]_vars

\* the cascade of remove_writeup(title) has run: the writeup is out of the model, no
\* tag document and no listing page mentions its file, and no tag that only it
\* carried has a document
CascadeDone(title, tags_to_check) ==
  LET filename == WriteupFilename(title)
  IN /\ FindByFilename(existing_writeups, filename) = 0
     /\ \A t \in DOMAIN tagdocs : ~Mentions(tagdocs[t], filename)
     /\ \A t \in Range(tags_to_check) : Exists(tagdocs, t) => Referenced(t)
     /\ \A p \in DOMAIN pages : ~Mentions(pages[p], filename)

\* C23: when the deletion of the writeup file fails, because the file is already
\* missing or because the deletion raises an error, remove_writeup reports it and
\* still runs the later steps: by the time it returns, the writeup has been removed
\* from the model, its cards purged, orphaned tag documents deleted and the
\* listings refreshed.
C23_FailedUnlinkDoesNotBlock ==
  (last.op = "remove_writeup" /\ last.pc = "returned"
     /\ last.unlink \in { "missing", "error" })
    => (last.ok /\ CascadeDone(last.name, last.tags_to_check))

\* the markup m is a row of complete cards: each element outside a card opens a card,
\* no element closes what was not opened, and every card is closed
CompleteCards(m) ==
  /\ \A n \in 1..Len(m) : Depth(m, n) >= 0
  /\ \A n \in 1..Len(m) : Depth(m, n - 1) = 0 => m[n] = CardOpen
  /\ Depth(m, Len(m)) = 0

\* remove_writeup stands between two of its steps
BetweenSteps ==
  last.op = "remove_writeup" /\ last.pc \in { "remove", "purge", "cleanup", "refresh" }

\* C24: wherever remove_writeup is interrupted between two steps of its cascade,
\* every tag document on disk has its start marker and its end marker, and its
\* member-listing region is a row of complete cards, with no partial card and no
\* closing element without its opening element.
C24_NoCorruptTagDocumentBetweenSteps ==
  BetweenSteps =>
    \A t \in DOMAIN tagdocs :
      /\ HasRegion(tagdocs[t], WriteupsStartMarker)
      /\ CompleteCards(Markup(ListingRegion(tagdocs[t], WriteupsStartMarker)))

\* the place of the first writeup of the model whose title is title, letter case
\* left aside; 0 if there is none
FirstTitled(title) ==
  LET c == { i \in DOMAIN existing_writeups : Lower(existing_writeups[i].title) = Lower(title) }
  IN IF c = {} THEN 0 ELSE CHOOSE i \in c : \A j \in c : i <= j

\* the writeup at place j stands behind a writeup with an equal title
Shadowed(j) ==
  \E i \in 1..(j - 1) :
    Lower(existing_writeups[i].title) = Lower(existing_writeups[j].title)

\* how often x occurs in the list s
Occurs(s, x) == Cardinality({ i \in DOMAIN s : s[i] = x })

\* C25: create_tag with target writeups and remove_tag resolve a title ignoring letter
\* case to the first writeup of the model with that title: that writeup gets the tag
\* (or loses one occurrence of it), and a later writeup with an equal title, its
\* entry in the model and its document, is left as it was.
C25_TitleResolvesToFirstMatch ==
  [][(last'.op \in { "create_tag", "remove_tag" } /\ last'.ok) =>
       /\ Len(existing_writeups') = Len(existing_writeups)
       /\ \A j \in DOMAIN existing_writeups :
            Shadowed(j) =>
              /\ existing_writeups'[j] = existing_writeups[j]
              /\ Exists(wdocs, existing_writeups[j].filename)
                   => wdocs'[existing_writeups[j].filename]
                        = wdocs[existing_writeups[j].filename]
       /\ \A k \in DOMAIN last'.list :
            LET i == FirstTitled(last'.list[k])
            IN i # 0 =>
                 IF last'.op = "create_tag"
                 THEN last'.name \in Range(existing_writeups'[i].tags)
                 ELSE \/ last'.name \notin Range(existing_writeups[i].tags)
                      \/ Occurs(existing_writeups'[i].tags, last'.name)
                           < Occurs(existing_writeups[i].tags, last'.name)]_vars

\* create_tag has attached a tag to a writeup named in other letter case, and to the
\* first of two writeups with equal titles but not to the second
C25_Witness ==
  /\ last.op = "create_tag" /\ last.ok
  /\ \E k \in DOMAIN last.list :
       \E i \in DOMAIN existing_writeups :
         /\ existing_writeups[i].title # last.list[k]
         /\ Lower(existing_writeups[i].title) = Lower(last.list[k])
         /\ last.name \in Range(existing_writeups[i].tags)
  /\ \E k \in DOMAIN last.list :
       \E i, j \in DOMAIN existing_writeups :
         /\ i < j
         /\ Lower(existing_writeups[i].title) = Lower(last.list[k])
         /\ Lower(existing_writeups[j].title) = Lower(last.list[k])
         /\ last.name \in Range(existing_writeups[i].tags)
         /\ last.name \notin Range(existing_writeups[j].tags)

\* the titles of the project cards of the projects listing of pgs, in document order
ProjectsListed(pgs) ==
  LET region == ListingRegion(pgs["projects.html"], ProjectsStartMarker)
      at == SelectSeq([i \in DOMAIN region |-> i],
                      LAMBDA i : i > 1 /\ region[i].k = "text" /\ region[i - 1].k = "a")
  IN [n \in DOMAIN at |-> region[at[n]].v]

\* the step refreshes the listings: the update command, or a remove_writeup that went
\* through to its last statement
Refreshing(l) == l.op = "update" \/ (l.op = "remove_writeup" /\ l.ok)

\* C26: create_project appends one project at the end of the project list, keeps
\* the earlier projects and their order, and writes no document; the projects
\* listing changes only in a step that refreshes the listings, and then holds the
\* projects of the list, in order.
C26_CreateProjectAppendsAndWritesNothing ==
  [][/\ (last'.op = "create_project") =>
          /\ Len(existing_projects') = Len(existing_projects) + 1
          /\ SubSeq(existing_projects', 1, Len(existing_projects)) = existing_projects
          /\ existing_projects'[Len(existing_projects')].title = last'.name
          /\ tagdocs' = tagdocs /\ wdocs' = wdocs /\ pages' = pages
     /\ (ProjectsListed(pages') # ProjectsListed(pages)) => Refreshing(last')
     /\ Refreshing(last') =>
          ProjectsListed(pages') = [i \in DOMAIN existing_projects |->
                                      existing_projects[i].title]]_vars

\* two different projects were added to a list that held an earlier one, and a later
\* refresh has put all three on the projects listing
C26_Witness ==
  /\ last.op = "update"
  /\ Len(existing_projects) = 3
  /\ existing_projects[2].title # existing_projects[3].title
  /\ ProjectsListed(pages) = << <<"O">>, existing_projects[2].title,
                                existing_projects[3].title >>

\* no name occurs twice in the list s
NoRepeat(s) == \A a, b \in DOMAIN s : s[a] = s[b] => a = b

\* C27: in every reachable state, no tag name occurs more than once in the tag
\* collection of any writeup of the model.
C27_WriteupTagsAreSets ==
  \A i \in DOMAIN existing_writeups : NoRepeat(existing_writeups[i].tags)

\* the writeup files on disk, oldest-created first: files are created by
\* create_writeup only, which appends to the model in the same order
FilesByCreation ==
  LET at == SelectSeq([i \in DOMAIN existing_writeups |-> existing_writeups[i].filename],
                      LAMBDA f : Exists(wdocs, f))
  IN at

\* the lists of writeups a generator constructed now over the documents on disk may
\* load
Reloaded == _load_existing_writeups(wdocs, FilesByCreation)

\* C28: in every state a sequence of create_tag, create_writeup, remove_tag and
\* remove_writeup commands leads to, a generator constructed anew over the documents
\* on disk loads the tag set of the running generator and, writeup by writeup in
\* creation order, the same file name, title and set of tag names.
C28_ReloadGivesTheSameModel ==
  (last.op \in { "create_tag", "create_writeup", "remove_tag", "remove_writeup" }) =>
    /\ _load_existing_tags(tagdocs) = existing_tags
    /\ \A fresh \in Reloaded :
         /\ Len(fresh) = Len(existing_writeups)
         /\ \A i \in DOMAIN fresh :
              i \in DOMAIN existing_writeups =>
                /\ fresh[i].filename = existing_writeups[i].filename
                /\ fresh[i].title = existing_writeups[i].title
                /\ Range(fresh[i].tags) = Range(existing_writeups[i].tags)

\* C29: a successful create_writeup creates a tag only for the names of its list that
\* are not in the tag set: the document of every tag already in the set stays as it
\* was (or stays missing), the tag set gains the unknown names of the list and
\* nothing else, and the model gains one writeup; create_tag(x) followed by
\* create_writeup with tags [x] leaves one tag and one writeup.
C29_KnownTagsNotRecreated ==
  [][(last'.op = "create_writeup" /\ last'.ok) =>
       /\ \A t \in existing_tags :
            /\ Exists(tagdocs', t) <=> Exists(tagdocs, t)
            /\ Exists(tagdocs, t) => tagdocs'[t] = tagdocs[t]
       /\ existing_tags' = existing_tags \cup Range(last'.list)
       /\ DOMAIN tagdocs' = DOMAIN tagdocs \cup (Range(last'.list) \ existing_tags)
       /\ Len(existing_writeups') = Len(existing_writeups) + 1
       /\ (existing_writeups = <<>> /\ existing_tags = Range(last'.list)
             /\ Cardinality(existing_tags) = 1)
            => (Cardinality(existing_tags') = 1 /\ Len(existing_writeups') = 1)]_vars

\* create_tag of a tag with a description, then create_writeup with that tag alone:
\* the model holds one tag and one writeup and the tag document still has the
\* description
C29_Witness ==
  /\ last.op = "create_writeup" /\ last.ok
  /\ Len(last.list) = 1
  /\ existing_tags = Range(last.list)
  /\ Len(existing_writeups) = 1
  /\ \E d \in Descriptions :
       tagdocs = (last.list[1] :> _generate_tag_html(last.list[1], d))

\* the cascade step that leads from statement group pc to the next one has done its
\* work on the writeup named in last
StepDone(pc) ==
  LET filename == WriteupFilename(last.name)
  IN CASE pc = "unlink" -> ~Exists(wdocs', filename)
       [] pc = "remove" -> /\ FindByFilename(existing_writeups, filename) # 0
                           /\ FindByFilename(existing_writeups', filename) = 0
       [] pc = "purge" -> \A t \in DOMAIN tagdocs' : ~Mentions(tagdocs'[t], filename)
       [] pc = "cleanup" -> \A t \in Range(last.tags_to_check) :
                              Exists(tagdocs', t) => t \in UsedTags(existing_writeups')
       [] OTHER -> /\ FindByFilename(existing_writeups, filename) = 0
                   /\ pages' = update_main_pages(Cur).pages
                   /\ \A p \in DOMAIN pages' : ~Mentions(pages'[p], filename)

\* the order of the cascade
CascadeOrder == << "unlink", "remove", "purge", "cleanup", "refresh", "returned" >>

\* C30: a remove_writeup whose file deletion did not raise goes through its steps in
\* this order: file deleted, writeup removed from the model, cards purged from the
\* tag documents, orphaned tag documents deleted, listings refreshed; each step
\* has done its work before the next begins, the refresh is the last step and
\* works on a model without the removed writeup, and every call that has begun
\* the cascade reaches its return.
C30_CascadeRunsInOrderToTheEnd ==
  /\ [][(last.op = "remove_writeup" /\ last.pc # "returned" /\ last'.unlink # "error") =>
          \E n \in 1..(Len(CascadeOrder) - 1) :
            /\ last.pc = CascadeOrder[n]
            /\ last'.pc = CascadeOrder[n + 1]
            /\ StepDone(last.pc)
            /\ last'.ok]_vars
  /\ [][(last'.op = "remove_writeup" /\ last'.pc = "returned" /\ last'.ok) =>
          last.pc = "refresh"]_vars
  /\ \A pc \in { "remove", "purge", "cleanup", "refresh" } :
       (last.pc = pc) ~> (last.pc = "returned" /\ last.ok)

\* a remove_writeup of the second of three writeups, with two tags, has returned
\* after the whole cascade
C30_Witness ==
  /\ last.op = "remove_writeup" /\ last.pc = "returned" /\ last.ok
  /\ last.unlink = "deleted"
  /\ last.name = T3 /\ Len(last.tags_to_check) = 2
  /\ Len(existing_writeups) = 2

\* the text of doc outside its tag region: up to and including the start marker, and
\* from the end marker on
AroundTagRegion(doc) ==
  LET s == Find(doc, TagStartMarker, 1)
      e == Find(doc, TagEndMarker, s + Len(TagStartMarker))
  IN << SubSeq(doc, 1, s), SubSeq(doc, e, Len(doc)) >>

\* C31: create_tag and remove_tag rewrite the tag region of the writeups they attach
\* the tag to or detach it from, and nothing else of any writeup document: the tag
\* region of each affected writeup's document then lists that writeup's tags of the
\* model, in order, the rest of the document is as it was, and the document of
\* every other writeup is unchanged.
C31_RetagRewritesOnlyTheTagRegion ==
  [][(last'.op \in { "create_tag", "remove_tag" } /\ last'.ok) =>
       /\ Len(existing_writeups') = Len(existing_writeups)
       /\ DOMAIN wdocs' = DOMAIN wdocs
       /\ \A i \in DOMAIN existing_writeups :
            LET f == existing_writeups[i].filename
            IN IF existing_writeups'[i].tags # existing_writeups[i].tags
               THEN /\ NonWs(TagRegion(wdocs'[f]))
                         = NonWs(TagLinks("../tags/", existing_writeups'[i].tags))
                    /\ AroundTagRegion(wdocs'[f]) = AroundTagRegion(wdocs[f])
               ELSE wdocs'[f] = wdocs[f]]_vars

\* create_tag has attached a new tag (a tag a writeup carries is known, and a known
\* tag is not created again) as the second tag of one writeup and has left another
\* writeup alone
C31_Witness ==
  /\ last.op = "create_tag" /\ last.ok
  /\ \E i, j \in DOMAIN existing_writeups :
       /\ i # j
       /\ Len(existing_writeups[i].tags) = 2
       /\ existing_writeups[i].tags[2] = last.name
       /\ Len(NonWs(TagRegion(wdocs[existing_writeups[i].filename]))) = 2
       /\ last.name \notin Range(existing_writeups[j].tags)

\* C32: the tag set of the model is the set of the tag names that have a tag
\* document on disk, after any sequence of create_tag, create_writeup, remove_tag and
\* remove_writeup.
C32_TagSetIsTheTagDocuments ==
  existing_tags = { t \in TagNames : Exists(tagdocs, t) }

\* C33: the file names of the writeups of the model are pairwise distinct and are
\* exactly the names of the writeup documents on disk.
C33_WriteupsAreTheWriteupDocuments ==
  /\ \A i, j \in DOMAIN existing_writeups :
       existing_writeups[i].filename = existing_writeups[j].filename => i = j
  /\ { existing_writeups[i].filename : i \in DOMAIN existing_writeups } = DOMAIN wdocs

\* the last of MaxOps commands has removed a writeup and its file, and one other
\* writeup stays
C33_Witness ==
  /\ last.op = "remove_writeup" /\ last.ok
  /\ ~Exists(wdocs, WriteupFilename(last.name))
  /\ Len(existing_writeups) = 1
  /\ ops = MaxOps

\* C34: on a site that started empty no two writeups of the model have titles that
\* are equal ignoring case, so a title names at most one writeup.
C34_TitlesDistinctIgnoringCase ==
  \A i, j \in DOMAIN existing_writeups :
    Lower(existing_writeups[i].title) = Lower(existing_writeups[j].title) => i = j

\* create_writeup has turned down a title that differs only in case from the title of
\* a writeup of the model
C34_Witness ==
  /\ last.op = "create_writeup" /\ ~last.ok
  /\ \E i \in DOMAIN existing_writeups :
       /\ existing_writeups[i].title # last.name
       /\ Lower(existing_writeups[i].title) = Lower(last.name)
       /\ FindByTitle(existing_writeups, last.name) = i

\* C35: after every command, for every writeup of the model the tag region of its
\* document lists exactly the tag names of the model entry, in the model's order.
C35_TagRegionListsModelTags ==
  last.op # "init" =>
    \A i \in DOMAIN existing_writeups :
      /\ Exists(wdocs, existing_writeups[i].filename)
      /\ NonWs(TagRegion(wdocs[existing_writeups[i].filename]))
           = NonWs(TagLinks("../tags/", existing_writeups[i].tags))

\* C36: remove_writeup leaves the model entry and the document of every other
\* writeup unchanged and deletes no tag document but those of the tags the removed
\* writeup carried that no remaining writeup carries; a tag created by create_tag
\* that no writeup carries keeps its document.
C36_RemoveWriteupTouchesNoOtherWriteup ==
  [][(last'.op = "remove_writeup" /\ last'.ok) =>
       LET i == FindByFilename(existing_writeups, WriteupFilename(last'.name))
       IN /\ existing_writeups' = RemoveAt(existing_writeups, i)
          /\ \A j \in DOMAIN existing_writeups \ {i} :
               /\ Exists(wdocs', existing_writeups[j].filename)
               /\ wdocs'[existing_writeups[j].filename] = wdocs[existing_writeups[j].filename]
          /\ \A t \in DOMAIN tagdocs \ DOMAIN tagdocs' :
               /\ t \in Range(existing_writeups[i].tags)
               /\ t \notin UsedTags(existing_writeups')
          /\ \A t \in DOMAIN tagdocs :
               t \notin UsedTags(existing_writeups) => Exists(tagdocs', t)]_vars

\* a writeup has been removed, another writeup that carries one of its tags stays
\* with its document, that tag keeps its document, and so does a tag no writeup
\* carries
C36_Witness ==
  /\ last.op = "remove_writeup" /\ last.ok
  /\ \E j \in DOMAIN existing_writeups, t \in Range(last.tags_to_check) :
       /\ t \in Range(existing_writeups[j].tags)
       /\ Exists(wdocs, existing_writeups[j].filename)
       /\ Exists(tagdocs, t)
  /\ \E u \in TagNames : Unreferenced(u) /\ u \notin Range(last.tags_to_check)

\* the text of doc outside its listing region: up to and including the start marker,
\* and from the end marker on; the whole of doc when it has no such region
OutsideListing(doc, start_marker) ==
  IF HasRegion(doc, start_marker)
  THEN << SubSeq(doc, 1, Find(doc, start_marker, 1) + Len(start_marker) - 1),
          SubSeq(doc, Find(doc, ListEndMarker, Find(doc, start_marker, 1)), Len(doc)) >>
  ELSE << doc, <<>> >>

\* C37: RefreshListings changes nothing but listing regions: the tag set, the writeup
\* list and the project list of the model are unchanged, no document is created or
\* deleted, no writeup document is modified, and every listing page and tag document
\* keeps its text outside the listing region.
C37_RefreshChangesOnlyListingRegions ==
  [][(last'.op = "update") =>
       /\ existing_tags' = existing_tags
       /\ existing_writeups' = existing_writeups
       /\ existing_projects' = existing_projects
       /\ wdocs' = wdocs
       /\ DOMAIN pages' = DOMAIN pages
       /\ DOMAIN tagdocs' = DOMAIN tagdocs
       /\ \A p \in DOMAIN pages :
            OutsideListing(pages'[p], PageMarker(p)) = OutsideListing(pages[p], PageMarker(p))
       /\ \A t \in DOMAIN tagdocs :
            OutsideListing(tagdocs'[t], WriteupsStartMarker)
              = OutsideListing(tagdocs[t], WriteupsStartMarker)]_vars

\* RefreshListings has run on a model with a writeup whose tag has no document: the
\* writeups listing shows the writeup and the tag document is still missing
C37_Witness ==
  /\ last.op = "update"
  /\ existing_writeups # <<>>
  /\ WriteupsListed(pages, existing_writeups)
  /\ \E t \in UsedTags(existing_writeups) : ~Exists(tagdocs, t)

\* C38: create_tag, create_writeup, remove_tag and create_project modify none of the
\* four listing pages and no tag document that exists before and after the command,
\* so its member-listing region stays as it was; the listings change only in
\* RefreshListings and remove_writeup steps.
C38_ListingsChangeOnlyOnRefreshOrRemoval ==
  [][(last'.op \in { "create_tag", "create_writeup", "remove_tag", "create_project" }) =>
       /\ pages' = pages
       /\ \A t \in DOMAIN tagdocs \cap DOMAIN tagdocs' : tagdocs'[t] = tagdocs[t]]_vars

\* a second writeup has been created with a tag of the first after a refresh: the
\* writeups listing and the tag document still list the first writeup only
C38_Witness ==
  /\ last.op = "create_writeup" /\ last.ok
  /\ Len(existing_writeups) = 2
  /\ WriteupsListed(pages, << existing_writeups[1] >>)
  /\ \E t \in Range(existing_writeups[1].tags) \cap Range(existing_writeups[2].tags) :
       /\ Exists(tagdocs, t)
       /\ Mentions(tagdocs[t], existing_writeups[1].filename)
       /\ ~Mentions(tagdocs[t], existing_writeups[2].filename)

====
